---- MODULE Spec2Model ----
(***************************************************************************)
(* A model of the task-manager templates:                                  *)
(*   - the four storage adapters of basic-task-manager/utils/storage.ts,   *)
(*   - the useSimpleTasks hook built on the default adapter,               *)
(*   - the dependency-cycle detector of the validation template,           *)
(*   - the priority sorters of the helpers and of PriorityIndicator.       *)
(* Asynchronous functions are cut at their awaits: every action is the     *)
(* code that runs between two awaits.                                      *)
(***************************************************************************)
EXTENDS Integers, Sequences, FiniteSets, TLC

VARIABLES
    sortInput,    \* the list handed to a priority sorter
    sortOutput,   \* [by |-> which sorter ran, list |-> what it returned]
    cycTasks,     \* the task list handed to findCircularDependencies
    cycResult,    \* [done |-> BOOLEAN, cycles |-> the cycles it returned]
    adapter,      \* which TaskStorage implementation the calls go to
    store,        \* what the adapter's backing store holds
    io,           \* the storage calls in flight, one per slot
    lastWrite,    \* history: the last change of the store
    tasks,        \* useSimpleTasks: the tasks state
    closure,      \* the tasks value the callbacks of the last render captured
    isLoading,    \* useSimpleTasks: the isLoading state
    error,        \* useSimpleTasks: the error state
    mounted,      \* whether the load-on-mount effect has run
    now,          \* the clock read by Date.now() and new Date()
    lastOutcome,  \* history: how the last finished hook operation ended
    started,      \* history: how many calls the callers have made
    failed,       \* history: whether a storage call of the hook has failed
    created,      \* history: the ids of the tasks whose createTask has resolved
    valInput,     \* validateTask: the task and the options it is called with
    valResult,    \* validateTask: what the call returned or threw
    batchInput,   \* validateTaskBatch: the tasks and the options
    batchResult,  \* validateTaskBatch: what the call returned
    lookupCall,   \* a status/priority lookup: the helper and its argument
    lookupResult, \* ... and what it returned or threw
    wouldCall,    \* wouldCreateCircularDependency: the list and the two ids
    wouldResult,  \* ... and what it answered
    seqIdInput,   \* generateSequentialId: the ids of the existing tasks
    seqIdResult,  \* ... and the id it returned
    workflow,  \* a status walk: where it started, where it is, its steps
    utRoot,   \* useTasks: options.projectRoot
    utDisk,   \* the tasks stored under the project root
    utData,   \* useTasks: whether data has arrived, and its tasks
    utCall,   \* useTasks: the operation in progress and where it is
    utLog,   \* history: the effects of that operation, in order
    utCalls,  \* history: how many operations the callers have started
    customStorage,   \* storage.ts: the module variable customStorage
    instances,   \* what each TaskStorage instance holds
    moduleCall,  \* history: the last call of a module-level function
    sortTasksCall,   \* sortTasks: the list and the options of the call
    sortTasksArray,   \* the array the caller handed to sortTasks, as it is now
    sortTasksResult   \* sortTasks: what the call returned

sortVars == <<sortInput, sortOutput>>
cycVars == <<cycTasks, cycResult>>
storeVars == <<adapter, store, io, lastWrite, started>>
hookVars == <<tasks, closure, isLoading, error, mounted, now, lastOutcome, failed,
              created>>
utilVars == <<valInput, valResult, batchInput, batchResult, lookupCall, lookupResult,
          wouldCall, wouldResult,
          seqIdInput, seqIdResult,
          workflow,
          utRoot, utDisk, utData, utCall, utLog, utCalls,
          customStorage, instances, moduleCall,
          sortTasksCall, sortTasksArray, sortTasksResult>>
vars == <<sortInput, sortOutput, cycTasks, cycResult, adapter, store, io, lastWrite,
          tasks, closure, isLoading, error, mounted, now, lastOutcome, started, failed,
          created,
          valInput, valResult, batchInput, batchResult, lookupCall, lookupResult,
          wouldCall, wouldResult,
          seqIdInput, seqIdResult,
          workflow,
          utRoot, utDisk, utData, utCall, utLog, utCalls,
          customStorage, instances, moduleCall,
          sortTasksCall, sortTasksArray, sortTasksResult>>

\* ------------------------------------------------------------------------
\* Bounds of the model
\* ------------------------------------------------------------------------
MaxSortLen == 3
MaxCycleTasks == 3
MaxDeps == 2
\* the longest list handed to saveTasks by a direct caller
MaxListLen == 2
\* the longest task list the hook grows
MaxTasks == 2
\* the last instant of the clock
MaxClock == 1
\* the calls direct callers make on an adapter
MaxCalls == 3
\* the operations callers start on the hook
MaxOps == 3
\* the longest list handed to validateTaskBatch
MaxBatchLen == 3
\* the longest list handed to wouldCreateCircularDependency
MaxWouldTasks == 2
\* the longest list of existing ids handed to generateSequentialId
MaxExistingIds == 3
\* the transitions one task's status is led through
MaxTransitions == 5
\* the tasks of a useTasks project and the operations its callers start
MaxUtTasks == 2
MaxUtCalls == 2

\* the storage calls that may overlap
Slots == {1, 2}

\* ------------------------------------------------------------------------
\* Generic helpers
\* ------------------------------------------------------------------------
SeqsUpTo(S, n) == UNION {[1..k -> S] : k \in 0..n}

Range(s) == {s[i] : i \in 1..Len(s)}

\* Array.prototype.indexOf, 1-based; 0 when absent (JavaScript's -1)
IndexOf(s, x) ==
    IF \E i \in 1..Len(s) : s[i] = x
    THEN CHOOSE i \in 1..Len(s) : s[i] = x /\ \A j \in 1..(i - 1) : s[j] # x
    ELSE 0

\* Array.prototype.filter
FilterSeq(s, Keep(_)) ==
    LET f[i \in 0..Len(s)] ==
            IF i = 0 THEN <<>>
            ELSE IF Keep(s[i]) THEN Append(f[i - 1], s[i]) ELSE f[i - 1]
    IN f[Len(s)]

\* One insertion of a stable sort: x goes before the first element that
\* compares greater than it, so after every element that compares equal.
InsertSorted(sorted, x, Cmp(_, _)) ==
    LET greater == {i \in 1..Len(sorted) : Cmp(sorted[i], x) > 0}
        p == IF greater = {} THEN Len(sorted) + 1
             ELSE CHOOSE i \in greater : \A j \in greater : i <= j
    IN SubSeq(sorted, 1, p - 1) \o <<x>> \o SubSeq(sorted, p, Len(sorted))

\* Array.prototype.sort with a comparator (stable since ES2019)
SortBy(s, Cmp(_, _)) ==
    LET f[k \in 0..Len(s)] ==
            IF k = 0 THEN <<>> ELSE InsertSorted(f[k - 1], s[k], Cmp)
    IN f[Len(s)]

\* ------------------------------------------------------------------------
\* Priorities
\* ------------------------------------------------------------------------
Priorities == {"high", "medium", "low"}

\* PRIORITY_CONFIG[p].weight of configs/config.template.ts
PRIORITY_CONFIG_weight(p) ==
    CASE p = "high" -> 3
      [] p = "medium" -> 2
      [] p = "low" -> 1
      [] OTHER -> 0

\* getPriorityWeight: PRIORITY_CONFIG[priority]?.weight || 0
getPriorityWeight(p) == PRIORITY_CONFIG_weight(p)

\* the comparator with its operands exchanged: ascending by weight
comparePrioritiesAscending(a, b) == getPriorityWeight(a) - getPriorityWeight(b)

\* comparePriorities(a, b) = getPriorityWeight(b) - getPriorityWeight(a)
comparePriorities(a, b) == getPriorityWeight(b) - getPriorityWeight(a)

IndicatorCompare(a, b) == comparePriorities(a.priority, b.priority)

\* PriorityIndicator's sortByPriority: [...tasks].sort(comparePriorities)
IndicatorSortByPriority(list) == SortBy(list, IndicatorCompare)

\* sortTasks' weights: const priorityWeights = { high: 3, medium: 2, low: 1 }
priorityWeights(p) ==
    CASE p = "high" -> 3
      [] p = "medium" -> 2
      [] p = "low" -> 1

SortFields == {"title", "status", "priority", "createdAt", "updatedAt"}

\* statusOrder.indexOf(status) of sortTasks, 0-based
statusOrderIndex(st) ==
    CASE st = "todo" -> 0
      [] st = "in-progress" -> 1
      [] st = "done" -> 2
      [] OTHER -> -1

\* the titles of the sample tasks in the order of String.prototype.localeCompare:
\* the collation ranks "Banana" between "apple" and "cherry", whatever the case
LocaleOrder == <<"apple", "Banana", "cherry">>

\* a.localeCompare(b): negative, zero or positive
localeCompare(a, b) ==
    IF IndexOf(LocaleOrder, a) < IndexOf(LocaleOrder, b) THEN -1
    ELSE IF IndexOf(LocaleOrder, a) > IndexOf(LocaleOrder, b) THEN 1
    ELSE 0

\* the comparator sortTasks builds for a field, before the order is applied
FieldComparison(field, a, b) ==
    CASE field = "title" -> localeCompare(a.title, b.title)
      [] field = "status" -> statusOrderIndex(a.status) - statusOrderIndex(b.status)
      [] field = "priority" -> priorityWeights(b.priority) - priorityWeights(a.priority)
      [] field = "createdAt" -> a.createdAt - b.createdAt
      [] field = "updatedAt" -> a.updatedAt - b.updatedAt
      [] OTHER -> 0

\* sortTasks(tasks, sort): a copy sorted by the field's comparator, negated for
\* order "desc"
\* the comparator with the order left out: comparison is returned as it is
sortComparatorIgnoringOrder(sort, a, b) == FieldComparison(sort.field, a, b)

\* return sort.order === "desc" ? -comparison : comparison
sortComparator(sort, a, b) ==
    IF sort.order = "desc"
    THEN 0 - FieldComparison(sort.field, a, b)
    ELSE FieldComparison(sort.field, a, b)

sortTasks(list, sort) ==
    LET Cmp(a, b) == sortComparator(sort, a, b)
    IN SortBy(list, Cmp)

\* helpers' sortByPriority: sortTasks(tasks, { field: "priority", order: "asc" })
HelperSortByPriority(list) == sortTasks(list, [field |-> "priority", order |-> "asc"])

\* ------------------------------------------------------------------------
\* Dependency-cycle detector (validation template)
\* ------------------------------------------------------------------------
TaskIds == {"A", "B", "C"}

\* an id no task of the list carries
MissingId == "X"

DepIds == TaskIds \cup {MissingId}

\* new Map(tasks.map(task => [task.id, task])): has
taskMapHas(list, id) == \E i \in 1..Len(list) : list[i].id = id

\* ... and get: of two entries with one key the later one stays
taskMapGet(list, id) ==
    list[CHOOSE i \in 1..Len(list) :
            list[i].id = id /\ \A j \in (i + 1)..Len(list) : list[j].id # id]

\* path.slice(cycleStart), cycleStart = path.indexOf(taskId)
CycleSlice(path, taskId) == SubSeq(path, IndexOf(path, taskId), Len(path))

\* dfs(taskId, path) of findCircularDependencies; st is the closure's state:
\* visited, recursionStack and cycles
RECURSIVE dfs(_, _, _, _)
RECURSIVE dfsEach(_, _, _, _, _)
dfs(list, taskId, path, st) ==
    IF taskId \in st.recursionStack
    THEN IF IndexOf(path, taskId) # 0
         THEN [st EXCEPT !.cycles = Append(@, CycleSlice(path, taskId))]
         ELSE st
    ELSE IF taskId \in st.visited
    THEN st
    ELSE LET entered == [st EXCEPT !.visited = @ \cup {taskId},
                                   !.recursionStack = @ \cup {taskId}]
             after == IF taskMapHas(list, taskId)
                      THEN dfsEach(list, taskMapGet(list, taskId).dependencies,
                                   1, path, entered)
                      ELSE entered
         IN [after EXCEPT !.recursionStack = @ \ {taskId}]

\* task.dependencies.forEach(depId => { if (taskMap.has(depId)) dfs(...) })
dfsEach(list, deps, i, path, st) ==
    IF i > Len(deps) THEN st
    ELSE dfsEach(list, deps, i + 1, path,
                 IF taskMapHas(list, deps[i])
                 THEN dfs(list, deps[i], Append(path, deps[i]), st)
                 ELSE st)

\* tasks.forEach(task => { if (!visited.has(task.id)) dfs(task.id, [task.id]) })
RECURSIVE cycleOuterLoop(_, _, _)
cycleOuterLoop(list, i, st) ==
    IF i > Len(list) THEN st
    ELSE cycleOuterLoop(list, i + 1,
                        IF list[i].id \notin st.visited
                        THEN dfs(list, list[i].id, <<list[i].id>>, st)
                        ELSE st)

findCircularDependencies(list) ==
    cycleOuterLoop(list, 1,
                   [visited |-> {}, recursionStack |-> {}, cycles |-> <<>>]).cycles

\* ------------------------------------------------------------------------
\* Tasks of the basic template and their JSON form
\* ------------------------------------------------------------------------
Statuses == {"todo", "in-progress", "done"}

\* Date.prototype.toJSON (toISOString): the instant as an ISO-8601 string
toISOString(date) == [iso |-> date]

\* new Date(isoString)
NewDate(text) == text.iso

\* a serialisation that writes createdAt in the place of updatedAt
SerializeWithoutUpdatedAt(task) ==
    [task EXCEPT !.createdAt = toISOString(@), !.updatedAt = toISOString(task.createdAt)]

\* what JSON.stringify writes for one task: its fields, the dates as strings
SerializeTask(task) ==
    [task EXCEPT !.createdAt = toISOString(@), !.updatedAt = toISOString(@)]

\* the load's map: { ...task, createdAt: new Date(task.createdAt),
\*                            updatedAt: new Date(task.updatedAt) }
RehydrateTask(json) ==
    [json EXCEPT !.createdAt = NewDate(@), !.updatedAt = NewDate(@)]

\* JSON text as a sequence of tokens: "[", one token per element, "]"
TokOpen == [tok |-> "[", val |-> <<>>]
TokClose == [tok |-> "]", val |-> <<>>]
TokItem(json) == [tok |-> "item", val |-> <<json>>]

\* JSON.stringify(tasks)
Stringify(list) == <<TokOpen>> \o [i \in 1..Len(list) |-> TokItem(SerializeTask(list[i]))]
                       \o <<TokClose>>

\* JSON.parse(text): the array, or a SyntaxError for text that is no array
\* (an empty file, a closing bracket in the middle)
WellFormed(text) ==
    /\ Len(text) >= 2
    /\ text[1].tok = "["
    /\ text[Len(text)].tok = "]"
    /\ \A i \in 2..(Len(text) - 1) : text[i].tok = "item"

JSONParse(text) ==
    IF WellFormed(text)
    THEN [ok |-> TRUE, value |-> [i \in 1..(Len(text) - 2) |-> text[i + 1].val[1]]]
    ELSE [ok |-> FALSE, value |-> <<>>]

\* ------------------------------------------------------------------------
\* Storage adapters
\* ------------------------------------------------------------------------
AdapterKinds == {"file", "localStorage", "memory", "api"}

\* createStorage(getDefaultStorageConfig()): browser, Node.js or neither
DefaultKinds == {"localStorage", "file", "memory"}

\* the adapters whose store access happens after an await (import of
\* fs/promises, fetch); the other two reach the store within the call
IsAsyncAdapter(a) == a \in {"file", "api"}

NoError == [wrap |-> "", cause |-> ""]
Ok(value) == [ok |-> TRUE, value |-> value, error |-> NoError]
Failed(wrap, cause) == [ok |-> FALSE, value |-> <<>>, error |-> [wrap |-> wrap, cause |-> cause]]

\* the message each method wraps a failure in
WrapOf(op) ==
    CASE op = "load" -> "Failed to load tasks"
      [] op = "save" -> "Failed to save tasks"
      [] op = "clear" -> "Failed to clear tasks"

\* the store of an adapter on which nothing was saved yet: no file, no key,
\* no resource; MemoryStorage's private tasks = []
EmptyStore(a) == [exists |-> (a = "memory"), data |-> <<>>]

ParsedLoad(text) ==
    IF JSONParse(text).ok
    THEN Ok([i \in 1..Len(JSONParse(text).value) |-> RehydrateTask(JSONParse(text).value[i])])
    ELSE Failed(WrapOf("load"), "SyntaxError")

\* FileStorage.loadTasks once readFile has answered: ENOENT is the empty list
FileLoadTasks(st) ==
    IF ~st.exists THEN Ok(<<>>) ELSE ParsedLoad(st.data)

\* LocalStorage.loadTasks: if (!data) return []
LocalLoadTasks(st) ==
    IF ~st.exists \/ st.data = <<>> THEN Ok(<<>>) ELSE ParsedLoad(st.data)

\* MemoryStorage.loadTasks: [...this.tasks]
MemoryLoadTasks(st) == Ok(st.data)

\* ApiStorage.loadTasks once the server has answered: a response that is not
\* ok (404 for a resource that does not exist) throws
ApiLoadTasks(st) ==
    IF ~st.exists THEN Failed(WrapOf("load"), "API request failed")
    ELSE ParsedLoad(st.data)

\* loadTasks() of adapter a on store st, the environment not failing
LoadTasksOn(a, st) ==
    CASE a = "file" -> FileLoadTasks(st)
      [] a = "localStorage" -> LocalLoadTasks(st)
      [] a = "memory" -> MemoryLoadTasks(st)
      [] a = "api" -> ApiLoadTasks(st)

\* fs.writeFile's open with flag "w": creates or truncates
FileOpenW(st) == [exists |-> TRUE, data |-> <<>>]

\* fs.writeFile's write through its own descriptor, from offset 0: what the
\* file holds beyond the written text stays. A file unlinked since the open
\* is no longer behind the path.
FileWriteAt0(st, text) ==
    IF st.exists
    THEN [exists |-> TRUE, data |-> text \o SubSeq(st.data, Len(text) + 1, Len(st.data))]
    ELSE st

\* the text saveTasks writes: JSON.stringify(tasks)
SaveText(list) == Stringify(list)

\* localStorage.setItem / the server's PUT: the whole value is replaced
ReplaceStore(st, text) == [exists |-> TRUE, data |-> text]

\* MemoryStorage.saveTasks: this.tasks = [...tasks]
MemorySaveTasks(st, list) == [exists |-> TRUE, data |-> list]

\* unlink / removeItem / DELETE; MemoryStorage.clearTasks: this.tasks = []
ClearStore(a, st) == EmptyStore(a)

\* ------------------------------------------------------------------------
\* Storage calls in flight
\* ------------------------------------------------------------------------
NoWrite == [kind |-> "none", arg |-> <<>>, with |-> {}]

IdleCall == [op |-> "none", st |-> "idle", arg |-> <<>>, res |-> Ok(<<>>),
             owner |-> "none", with |-> {}, saw |-> NoWrite,
             before |-> <<>>, solo |-> FALSE]

\* a save or clear that has not finished changing the store
InFlightWrite(c) == c.op \in {"save", "clear"} /\ c.st \in {"pending", "opened"}

\* a newly started write (op: save or clear) overlaps every write in flight;
\* with: the kinds of write a call has overlapped
MarkOverlap(calls, op) ==
    [t \in Slots |-> IF InFlightWrite(calls[t]) THEN [calls[t] EXCEPT !.with = @ \cup {op}]
                     ELSE calls[t]]

\* a newly started hook operation overlaps every operation in flight
MarkBusy(calls) ==
    [t \in Slots |-> IF calls[t].st # "idle" THEN [calls[t] EXCEPT !.solo = FALSE]
                     ELSE calls[t]]

NoneInFlight(calls) == \A t \in Slots : calls[t].st = "idle"

\* a call takes the first free slot
IsFreeSlot(s) == io[s].st = "idle" /\ \A t \in Slots : t < s => io[t].st # "idle"

NewCall(op, list, owner, before) ==
    [op |-> op, st |-> "pending", arg |-> list, res |-> Ok(<<>>), owner |-> owner,
     with |-> IF op = "load" THEN {} ELSE {io[t].op : t \in {u \in Slots : InFlightWrite(io[u])}},
     saw |-> NoWrite, before |-> before, solo |-> NoneInFlight(io)]

\* saveTasks(list) up to its first await. MemoryStorage and LocalStorage have
\* changed the store by then (setItem may throw: fail); FileStorage awaits
\* the import of fs/promises and ApiStorage the fetch.
BeginSave(s, list, owner, before, fail) ==
    LET c == NewCall("save", list, owner, before)
        busy == MarkBusy(MarkOverlap(io, "save"))
    IN /\ IsFreeSlot(s)
       /\ fail => adapter = "localStorage"
       /\ started' = started + 1
       /\ IF IsAsyncAdapter(adapter)
          THEN /\ io' = [busy EXCEPT ![s] = c]
               /\ UNCHANGED <<store, lastWrite>>
          ELSE IF fail
          THEN /\ io' = [busy EXCEPT ![s] = [c EXCEPT !.st = "settled",
                            !.res = Failed(WrapOf("save"), "QuotaExceededError")]]
               /\ UNCHANGED <<store, lastWrite>>
          ELSE /\ io' = [busy EXCEPT ![s] = [c EXCEPT !.st = "settled"]]
               /\ store' = IF adapter = "memory" THEN MemorySaveTasks(store, list)
                           ELSE ReplaceStore(store, SaveText(list))
               /\ lastWrite' = [kind |-> "save", arg |-> list, with |-> c.with]
       /\ UNCHANGED adapter

\* loadTasks() up to its first await
BeginLoad(s, owner, before, fail) ==
    LET c == NewCall("load", <<>>, owner, before)
        busy == MarkBusy(io)
    IN /\ IsFreeSlot(s)
       /\ fail => adapter = "localStorage"
       /\ started' = started + 1
       /\ io' = [busy EXCEPT ![s] =
                    IF IsAsyncAdapter(adapter) THEN c
                    ELSE [c EXCEPT !.st = "settled", !.saw = lastWrite,
                                   !.res = IF fail THEN Failed(WrapOf("load"), "SecurityError")
                                           ELSE LoadTasksOn(adapter, store)]]
       /\ UNCHANGED <<adapter, store, lastWrite>>

\* clearTasks() up to its first await
BeginClear(s, owner, fail) ==
    LET c == NewCall("clear", <<>>, owner, <<>>)
        busy == MarkBusy(MarkOverlap(io, "clear"))
    IN /\ IsFreeSlot(s)
       /\ fail => adapter = "localStorage"
       /\ started' = started + 1
       /\ IF IsAsyncAdapter(adapter)
          THEN /\ io' = [busy EXCEPT ![s] = c]
               /\ UNCHANGED <<store, lastWrite>>
          ELSE IF fail
          THEN /\ io' = [busy EXCEPT ![s] = [c EXCEPT !.st = "settled",
                            !.res = Failed(WrapOf("clear"), "SecurityError")]]
               /\ UNCHANGED <<store, lastWrite>>
          ELSE /\ io' = [busy EXCEPT ![s] = [c EXCEPT !.st = "settled"]]
               /\ store' = ClearStore(adapter, store)
               /\ lastWrite' = [kind |-> "clear", arg |-> <<>>, with |-> c.with]
       /\ UNCHANGED adapter

\* fs.writeFile opens the file: it is created or truncated
FileOpenTruncate(s) ==
    /\ adapter = "file" /\ io[s].op = "save" /\ io[s].st = "pending"
    /\ store' = FileOpenW(store)
    /\ io' = [io EXCEPT ![s].st = "opened"]
    /\ lastWrite' = [kind |-> "truncate", arg |-> <<>>, with |-> {}]
    /\ UNCHANGED <<adapter, started, hookVars, sortVars, cycVars, utilVars>>

\* fs.writeFile writes the text and closes: saveTasks settles
FileWrite(s) ==
    /\ adapter = "file" /\ io[s].op = "save" /\ io[s].st = "opened"
    /\ store' = FileWriteAt0(store, SaveText(io[s].arg))
    /\ io' = [io EXCEPT ![s].st = "settled"]
    /\ lastWrite' = [kind |-> "save", arg |-> io[s].arg, with |-> io[s].with]
    /\ UNCHANGED <<adapter, started, hookVars, sortVars, cycVars, utilVars>>

\* the server applies the PUT and answers ok
ApiPut(s) ==
    /\ adapter = "api" /\ io[s].op = "save" /\ io[s].st = "pending"
    /\ store' = ReplaceStore(store, SaveText(io[s].arg))
    /\ io' = [io EXCEPT ![s].st = "settled"]
    /\ lastWrite' = [kind |-> "save", arg |-> io[s].arg, with |-> io[s].with]
    /\ UNCHANGED <<adapter, started, hookVars, sortVars, cycVars, utilVars>>

\* readFile or the GET answers: loadTasks settles
AsyncRead(s) ==
    /\ IsAsyncAdapter(adapter) /\ io[s].op = "load" /\ io[s].st = "pending"
    /\ io' = [io EXCEPT ![s].st = "settled", ![s].saw = lastWrite,
                        ![s].res = LoadTasksOn(adapter, store)]
    /\ UNCHANGED <<adapter, store, lastWrite, started, hookVars, sortVars, cycVars, utilVars>>

\* unlink (ENOENT ignored) or the DELETE answers: clearTasks settles
AsyncClear(s) ==
    /\ IsAsyncAdapter(adapter) /\ io[s].op = "clear" /\ io[s].st = "pending"
    /\ store' = ClearStore(adapter, store)
    /\ io' = [io EXCEPT ![s].st = "settled"]
    /\ lastWrite' = [kind |-> "clear", arg |-> <<>>, with |-> io[s].with]
    /\ UNCHANGED <<adapter, started, hookVars, sortVars, cycVars, utilVars>>

\* the file system or the network fails the call (EIO, a rejected fetch, a
\* response that is not ok): the method throws its wrapped error. A writeFile
\* that fails after its open leaves the file truncated.
IoFailure(s) ==
    /\ IsAsyncAdapter(adapter) /\ io[s].st \in {"pending", "opened"}
    /\ io' = [io EXCEPT ![s].st = "settled", ![s].saw = lastWrite,
                        ![s].res = Failed(WrapOf(io[s].op), "EIO")]
    /\ UNCHANGED <<adapter, store, lastWrite, started, hookVars, sortVars, cycVars, utilVars>>

\* ------------------------------------------------------------------------
\* Direct callers of the adapters
\* ------------------------------------------------------------------------
MkTask(id, title, status, priority, createdAt, updatedAt) ==
    [id |-> id, title |-> title, status |-> status, priority |-> priority,
     createdAt |-> createdAt, updatedAt |-> updatedAt]

\* generateId's `${timestamp}-${random}`: the clock in base 36, a dash and up
\* to five base-36 digits of Math.random()
MkId(time, rand) == [time |-> time, rand |-> rand]

\* two tasks a caller may hand to saveTasks
SampleTasks ==
    {MkTask(MkId(0, "r1"), "a", "todo", "high", 0, 1),
     MkTask(MkId(1, "r2"), "b", "done", "low", 1, 2)}

\* the lists a caller saves: no id twice
SaveLists == {l \in SeqsUpTo(SampleTasks, MaxListLen) :
                 \A i, j \in 1..Len(l) : i # j => l[i].id # l[j].id}

CallSaveTasks(s, list, fail) ==
    /\ started < MaxCalls
    /\ BeginSave(s, list, "caller", <<>>, fail)
    /\ UNCHANGED <<hookVars, sortVars, cycVars, utilVars>>

CallLoadTasks(s, fail) ==
    /\ started < MaxCalls
    /\ BeginLoad(s, "caller", <<>>, fail)
    /\ UNCHANGED <<hookVars, sortVars, cycVars, utilVars>>

CallClearTasks(s, fail) ==
    /\ started < MaxCalls
    /\ BeginClear(s, "caller", fail)
    /\ UNCHANGED <<hookVars, sortVars, cycVars, utilVars>>

\* the caller's await returns or throws
Return(s) ==
    /\ io[s].st = "settled" /\ io[s].owner = "caller"
    /\ io' = [io EXCEPT ![s] = IdleCall]
    /\ UNCHANGED <<adapter, store, lastWrite, started, hookVars, sortVars, cycVars, utilVars>>

\* ------------------------------------------------------------------------
\* useSimpleTasks
\* ------------------------------------------------------------------------
\* CONFIG.ui.autoSave
AutoSave == TRUE

\* what Math.random().toString(36).substr(2, 5) may return
RandomStrings == {"r1", "r2"}

\* generateId()
generateId(rand) == MkId(now, rand)

\* validateTask's title limit
MaxTitleLength == 200

\* the titles of the model and their lengths
Titles == {"", " ", "a", "b", "long"}
TitleLength(t) == CASE t = "" -> 0 [] t = "long" -> MaxTitleLength + 1 [] OTHER -> 1
\* title.trim()
TitleTrim(t) == IF t = " " THEN "" ELSE t

isValidStatus(st) == st \in {"todo", "in-progress", "done"}
isValidPriority(p) == p \in {"high", "medium", "low"}

\* validateTask(task).errors of the helpers
validateTaskErrors(task) ==
    (IF task.title = "" THEN <<"Title is required">>
     ELSE IF TitleLength(TitleTrim(task.title)) = 0 THEN <<"Title cannot be empty">>
     ELSE IF TitleLength(task.title) > MaxTitleLength
     THEN <<"Title must be less than 200 characters">>
     ELSE <<>>)
    \o (IF task.status # "" /\ ~isValidStatus(task.status) THEN <<"Invalid status">> ELSE <<>>)
    \o (IF task.priority # "" /\ ~isValidPriority(task.priority)
        THEN <<"Invalid priority">> ELSE <<>>)

\* the error state: null is the empty message
NoMessage == <<>>

\* a field an UpdateTaskData does not carry
Undefined == "undefined"

\* what the callers of the model pass in
CreateInputs == [title : {"", "a"}, status : {"todo", "done"}, priority : {"high"}]
UpdateInputs == [title : {Undefined, ""}, status : {Undefined, "done"},
                 priority : {Undefined}]

\* an id no task carries
UnknownTaskId == MkId(0, "none")

NoOutcome == [op |-> "none", result |-> "none", ioFailed |-> FALSE]

IdsOf(list) == {list[i].id : i \in 1..Len(list)}

\* the ids a caller may name
KnownIds == IdsOf(tasks) \cup IdsOf(closure) \cup {UnknownTaskId}

\* tasks.find(t => t.id === id), when some task has the id
FindTask(list, id) == list[CHOOSE i \in 1..Len(list) :
                             list[i].id = id /\ \A j \in 1..(i - 1) : list[j].id # id]

\* { ...existingTask, ...data, updatedAt: new Date() }
MergeUpdate(existing, data) ==
    [existing EXCEPT !.title = IF data.title = Undefined THEN @ ELSE data.title,
                     !.status = IF data.status = Undefined THEN @ ELSE data.status,
                     !.priority = IF data.priority = Undefined THEN @ ELSE data.priority,
                     !.updatedAt = now]

\* the catch block of an operation: setError(message), throw
Reject(op, message) ==
    /\ error' = message
    /\ lastOutcome' = [op |-> op, result |-> "rejected", ioFailed |-> FALSE]
    /\ started' = started + 1
    /\ UNCHANGED <<tasks, closure, isLoading, mounted, now, failed, created,
                   adapter, store, io, lastWrite>>

\* setError(null), setTasks(updatedTasks), await saveTasksToStorage(updatedTasks)
Commit(s, op, updatedTasks, fail) ==
    /\ error' = NoMessage
    /\ tasks' = updatedTasks
    /\ IF AutoSave
       THEN /\ BeginSave(s, updatedTasks, op, tasks, fail)
            /\ UNCHANGED lastOutcome
       ELSE /\ ~fail
            /\ lastOutcome' = [op |-> op, result |-> "resolved", ioFailed |-> FALSE]
            /\ started' = started + 1
            /\ UNCHANGED <<adapter, store, io, lastWrite>>
    /\ UNCHANGED <<closure, isLoading, mounted, now, failed, created>>

\* the load-on-mount effect: loadTasksFromStorage()
Mount(s, fail) ==
    /\ ~mounted
    /\ mounted' = TRUE
    /\ isLoading' = TRUE
    /\ error' = NoMessage
    /\ BeginLoad(s, "mount", tasks, fail)
    /\ UNCHANGED <<tasks, closure, now, lastOutcome, failed, created, sortVars, cycVars, utilVars>>

\* refresh(): loadTasksFromStorage() up to its await
Refresh(s, fail) ==
    /\ mounted /\ started < MaxOps
    /\ isLoading' = TRUE
    /\ error' = NoMessage
    /\ BeginLoad(s, "refresh", tasks, fail)
    /\ UNCHANGED <<tasks, closure, mounted, now, lastOutcome, failed, created, sortVars, cycVars, utilVars>>

\* createTask(data) up to its await
CreateTask(s, data, rand, fail) ==
    /\ mounted /\ IsFreeSlot(s) /\ started < MaxOps
    /\ IF validateTaskErrors(data) # <<>>
       THEN ~fail /\ Reject("createTask", validateTaskErrors(data))
       ELSE /\ Len(closure) < MaxTasks
            /\ Commit(s, "createTask",
                      Append(closure, MkTask(generateId(rand), data.title, data.status,
                                             data.priority, now, now)),
                      fail)
    /\ UNCHANGED <<sortVars, cycVars, utilVars>>

\* updateTask(id, data) up to its await
UpdateTask(s, id, data, fail) ==
    /\ mounted /\ IsFreeSlot(s) /\ started < MaxOps
    /\ IF id \notin IdsOf(closure)
       THEN ~fail /\ Reject("updateTask", <<"Task with id not found">>)
       ELSE LET updatedTask == MergeUpdate(FindTask(closure, id), data)
            IN IF validateTaskErrors(updatedTask) # <<>>
               THEN ~fail /\ Reject("updateTask", validateTaskErrors(updatedTask))
               ELSE Commit(s, "updateTask",
                           [i \in 1..Len(closure) |->
                               IF closure[i].id = id THEN updatedTask ELSE closure[i]],
                           fail)
    /\ UNCHANGED <<sortVars, cycVars, utilVars>>

\* deleteTask(id) up to its await
DeleteTask(s, id, fail) ==
    /\ mounted /\ IsFreeSlot(s) /\ started < MaxOps
    /\ IF id \notin IdsOf(closure)
       THEN ~fail /\ Reject("deleteTask", <<"Task with id not found">>)
       ELSE LET Keep(t) == t.id # id
            IN /\ Commit(s, "deleteTask", FilterSeq(closure, Keep), fail)
    /\ UNCHANGED <<sortVars, cycVars, utilVars>>

\* deleteCompletedTasks() up to its await
DeleteCompletedTasks(s, fail) ==
    /\ mounted /\ IsFreeSlot(s) /\ started < MaxOps
    /\ LET Keep(t) == t.status # "done"
       IN Commit(s, "deleteCompletedTasks", FilterSeq(closure, Keep), fail)
    /\ UNCHANGED <<sortVars, cycVars, utilVars>>

\* markAllAsComplete() up to its await
MarkAllAsComplete(s, fail) ==
    /\ mounted /\ IsFreeSlot(s) /\ started < MaxOps
    /\ Commit(s, "markAllAsComplete",
              [i \in 1..Len(closure) |->
                  [closure[i] EXCEPT !.status = "done", !.updatedAt = now]],
              fail)
    /\ UNCHANGED <<sortVars, cycVars, utilVars>>

\* a load that leaves the loading flag as it set it
isLoadingLeftSet == TRUE

\* the finally block of loadTasksFromStorage: setIsLoading(false)
isLoadingAfterLoad == FALSE

\* what runs after the await of the hook's storage call. A load: setTasks of
\* what was loaded, or setError("Failed to load tasks"); finally
\* setIsLoading(false). A save: saveTasksToStorage catches the error, logs it
\* and sets the error state; the operation then returns normally.
Settle(s) ==
    /\ io[s].st = "settled" /\ io[s].owner # "caller"
    /\ IF io[s].op = "load"
       THEN /\ tasks' = IF io[s].res.ok THEN io[s].res.value ELSE tasks
            /\ error' = IF io[s].res.ok THEN error ELSE <<"Failed to load tasks">>
            /\ isLoading' = isLoadingAfterLoad
       ELSE /\ error' = IF io[s].res.ok THEN error ELSE <<"Failed to save tasks">>
            /\ UNCHANGED <<tasks, isLoading>>
    /\ lastOutcome' = [op |-> io[s].owner, result |-> "resolved",
                       ioFailed |-> ~io[s].res.ok]
    /\ failed' = (failed \/ ~io[s].res.ok)
    /\ created' = IF io[s].owner = "createTask"
                   THEN created \cup {io[s].arg[Len(io[s].arg)].id}
                   ELSE created
    /\ io' = [io EXCEPT ![s] = IdleCall]
    /\ UNCHANGED <<adapter, store, lastWrite, started, closure, mounted, now,
                   sortVars, cycVars, utilVars>>

\* React renders again: the callbacks are rebuilt over the current tasks
Render ==
    /\ closure # tasks
    /\ closure' = tasks
    /\ UNCHANGED <<tasks, isLoading, error, mounted, now, lastOutcome, failed, created, storeVars,
                   sortVars, cycVars, utilVars>>

\* a millisecond passes
Tick ==
    /\ now < MaxClock
    /\ now' = now + 1
    /\ UNCHANGED <<tasks, closure, isLoading, error, mounted, lastOutcome, failed, created, storeVars,
                   sortVars, cycVars, utilVars>>

\* clearError()
ClearError ==
    /\ error # NoMessage
    /\ error' = NoMessage
    /\ UNCHANGED <<tasks, closure, isLoading, mounted, now, lastOutcome, failed, created, storeVars,
                   sortVars, cycVars, utilVars>>

\* ------------------------------------------------------------------------
\* Validation template: validateTask and validateSubtask
\* ------------------------------------------------------------------------
\* the defaults of validateTask's options
DefaultMaxTitleLength == 100
DefaultMinTitleLength == 1
DefaultMaxDescriptionLength == 1000
\* options that ask no priority for a description
RequireDescriptionForNoPriority == {}

DefaultRequireDescriptionForPriority == {"high"}

\* the lowest and highest complexity score
MinComplexityScore == 1
MaxComplexityScore == 10

\* a value that is not a string (a number) where the caller should pass text
NotAString == "#5"

\* the texts of the model for titles and descriptions, their lengths and trim()
Texts == {"", " ", "t", " t ", "longtitle", "longtext"}
TextLength(x) ==
    CASE x = "" -> 0
      [] x = " t " -> 3
      [] x = "longtitle" -> DefaultMaxTitleLength + 1
      [] x = "longtext" -> DefaultMaxDescriptionLength + 1
      [] OTHER -> 1
TextTrim(x) == CASE x = " " -> "" [] x = " t " -> "t" [] OTHER -> x

\* typeof x === "string"
IsString(x) == x \notin {Undefined, NotAString}
\* !x for a text, undefined or a number other than 0
IsFalsy(x) == x \in {Undefined, ""}

\* idPattern.test(id), idPattern = /^[1-9]\d*(\.[1-9]\d*)*$/, on the ids of
\* the model
WellFormedIds == {"1", "2", "3", "9", "1.1"}
IllFormedIds == {"A", "B", "C", "X", "0", "1."}
idPatternTest(id) == id \in WellFormedIds

validStatuses == {"pending", "in-progress", "review", "done", "deferred", "cancelled"}
validPriorities == {"high", "medium", "low"}

\* an optional field: absent, or present with a value
Absent(value) == [present |-> FALSE, value |-> value]
Present(value) == [present |-> TRUE, value |-> value]

\* what a call returns, or the exception it throws
Returned(value) == [raised |-> FALSE, exception |-> "", value |-> value]
Raised(exception) == [raised |-> TRUE, exception |-> exception, value |-> <<>>]

\* array.includes(x)
Includes(array, x) == \E i \in 1..Len(array) : array[i] = x

\* new Set(array).size !== array.length
HasDuplicates(array) == \E i, j \in 1..Len(array) : i # j /\ array[i] = array[j]

\* validateSubtask(subtask, parentTaskId, index): the errors. The dependencies
\* of a subtask of the model are numbers, never the parent's id (a string).
validateSubtask(subtask, parentTaskId) ==
    (IF subtask.id < 1 THEN <<"Subtask ID must be a positive number">> ELSE <<>>)
    \o (IF IsFalsy(subtask.title) \/ ~IsString(subtask.title)
        THEN <<"Subtask title is required and must be a string">>
        ELSE IF TextLength(TextTrim(subtask.title)) = 0
        THEN <<"Subtask title cannot be empty">>
        ELSE <<>>)
    \o (IF subtask.status \notin validStatuses THEN <<"Invalid subtask status">> ELSE <<>>)
    \o (IF Includes(subtask.dependencies, subtask.id)
        THEN <<"Subtask cannot depend on itself or its parent task">>
        ELSE <<>>)

\* existingTasks.find(t => t.id === depId): the first task with that id
FindExisting(existing, depId) ==
    existing[CHOOSE i \in 1..Len(existing) :
                existing[i].id = depId /\ \A j \in 1..(i - 1) : existing[j].id # depId]

\* the options after the destructuring with its defaults
requireDescriptionForPriority(options) ==
    IF options.requireDescriptionForPriority.present
    THEN options.requireDescriptionForPriority.value
    ELSE DefaultRequireDescriptionForPriority

\* the errors validateTask collects, in the order of the code
validateTaskTemplateErrors(task, options) ==
    LET existing == options.existingTasks
        deps == task.dependencies
        subs == task.subtasks.value
        subErrors[i \in 0..Len(subs)] ==
            IF i = 0 THEN <<>>
            ELSE subErrors[i - 1] \o validateSubtask(subs[i], task.id)
    IN (IF IsFalsy(task.id) THEN <<"Task ID is required and must be a string">>
        ELSE IF ~idPatternTest(task.id) THEN <<"Task ID does not match required format">>
        ELSE <<>>)
       \o (IF IsFalsy(task.title) \/ ~IsString(task.title)
           THEN <<"Task title is required and must be a string">>
           ELSE (IF TextLength(TextTrim(task.title)) < DefaultMinTitleLength
                 THEN <<"Task title must be at least 1 character(s) long">> ELSE <<>>)
                \o (IF TextLength(task.title) > DefaultMaxTitleLength
                    THEN <<"Task title must not exceed 100 characters">> ELSE <<>>))
       \o (IF task.description = Undefined THEN <<>>
           ELSE IF ~IsString(task.description) THEN <<"Task description must be a string">>
           ELSE IF TextLength(task.description) > DefaultMaxDescriptionLength
           THEN <<"Task description must not exceed 1000 characters">>
           ELSE <<>>)
       \o (IF task.status \notin validStatuses THEN <<"Invalid task status">> ELSE <<>>)
       \o (IF task.priority \notin validPriorities THEN <<"Invalid task priority">> ELSE <<>>)
       \o (IF /\ task.priority \in requireDescriptionForPriority(options)
              /\ (IsFalsy(task.description) \/ TextLength(TextTrim(task.description)) = 0)
           THEN <<"priority tasks must have a description">> ELSE <<>>)
       \o (IF /\ task.complexityScore.present
              /\ (task.complexityScore.value < MinComplexityScore
                  \/ task.complexityScore.value > MaxComplexityScore)
           THEN <<"Complexity score must be a number between 1 and 10">> ELSE <<>>)
       \o (IF Includes(deps, task.id) THEN <<"Task cannot depend on itself">> ELSE <<>>)
       \o [i \in 1..Cardinality({j \in 1..Len(deps) : ~idPatternTest(deps[j])}) |->
              "Invalid dependency ID format"]
       \o (IF Len(existing) > 0 /\ \E i \in 1..Len(deps) : ~Includes([k \in 1..Len(existing) |-> existing[k].id], deps[i])
           THEN <<"Missing dependency tasks">> ELSE <<>>)
       \o (IF task.subtasks.present
           THEN subErrors[Len(subs)]
                \o (IF HasDuplicates([i \in 1..Len(subs) |-> subs[i].id])
                    THEN <<"Task has duplicate subtask IDs">> ELSE <<>>)
           ELSE <<>>)

\* the warnings validateTask collects
validateTaskTemplateWarnings(task, options) ==
    LET existing == options.existingTasks
        deps == task.dependencies
        subs == task.subtasks.value
        Blocked(depId) == /\ \E k \in 1..Len(existing) : existing[k].id = depId
                          /\ FindExisting(existing, depId).status # "done"
    IN (IF ~IsFalsy(task.title) /\ IsString(task.title) /\ TextTrim(task.title) # task.title
        THEN <<"Task title has leading or trailing whitespace">> ELSE <<>>)
       \o (IF HasDuplicates(deps) THEN <<"Task has duplicate dependencies">> ELSE <<>>)
       \o (IF task.subtasks.present /\ ~options.allowEmptySubtasks /\ Len(subs) = 0
           THEN <<"Task has empty subtasks array">> ELSE <<>>)
       \o (IF /\ task.status = "in-progress" /\ Len(existing) > 0
              /\ \E i \in 1..Len(deps) : Blocked(deps[i])
           THEN <<"Task is in progress but has unresolved dependencies">> ELSE <<>>)
       \o (IF /\ task.status = "done" /\ task.subtasks.present
              /\ \E i \in 1..Len(subs) : subs[i].status # "done"
           THEN <<"Task is marked done but has incomplete subtask(s)">> ELSE <<>>)

\* task.description.trim() on a description that is not a string: when the
\* priority asks for a description and the description is truthy
DescriptionTrimThrows(task, options) ==
    /\ task.priority \in requireDescriptionForPriority(options)
    /\ ~IsFalsy(task.description) /\ ~IsString(task.description)

\* validateTask(task, options) of the validation template
validateTaskTemplate(task, options) ==
    IF DescriptionTrimThrows(task, options)
    THEN Raised("TypeError")
    ELSE Returned([isValid |-> Len(validateTaskTemplateErrors(task, options)) = 0,
                   errors |-> validateTaskTemplateErrors(task, options),
                   warnings |-> validateTaskTemplateWarnings(task, options)])

\* the subtasks of the model
MkSubtask(id, title, status, dependencies) ==
    [id |-> id, title |-> title, status |-> status, dependencies |-> dependencies]

SampleSubtasks ==
    {MkSubtask(1, "t", "done", <<>>), MkSubtask(1, "t", "pending", <<>>),
     MkSubtask(0, "", "bogus", <<0>>)}

\* the tasks validateTask is called with
ValTasks ==
    [id : {"1", "A"},
     title : {"t", " t ", "", "longtitle"},
     description : {Undefined, "", " ", "t", NotAString},
     status : {"pending", "in-progress", "done", "bogus"},
     priority : {"high", "medium", "urgent"},
     complexityScore : {Absent(0), Present(11)},
     dependencies : {<<>>, <<"2">>, <<"2", "2">>, <<"1">>, <<"9">>},
     subtasks : {Absent(<<>>), Present(<<>>)}
                \cup {Present(<<sub>>) : sub \in SampleSubtasks}]

\* a task of the existing tasks: the dependency "2", not done
ExistingTask ==
    [id |-> "2", title |-> "t", description |-> "t", status |-> "pending",
     priority |-> "low", complexityScore |-> Absent(0), dependencies |-> <<>>,
     subtasks |-> Absent(<<>>)]

\* the options validateTask is called with
ValOptions ==
    [requireDescriptionForPriority : {Absent({}), Present({})},
     existingTasks : {<<>>, <<ExistingTask>>},
     allowEmptySubtasks : {FALSE},
     checkCircularDependencies : {TRUE}]

NoCall == [done |-> FALSE, res |-> Returned(<<>>)]

NoInput == [task |-> <<>>, options |-> <<>>]

ValIdle == valInput = NoInput /\ valResult = NoCall

ValInit ==
    /\ valInput \in [task : ValTasks, options : ValOptions]
    /\ valResult = NoCall

\* a caller calls validateTask(task, options)
ValidateTask ==
    /\ ~valResult.done
    /\ valResult' = [done |-> TRUE,
                     res |-> validateTaskTemplate(valInput.task, valInput.options)]
    /\ UNCHANGED <<valInput, batchInput, batchResult, lookupCall, lookupResult,
                   sortVars, cycVars, storeVars, hookVars,
                   wouldCall, wouldResult,
                   seqIdInput, seqIdResult,
                   workflow,
                   utRoot, utDisk, utData, utCall, utLog, utCalls,
                   customStorage, instances, moduleCall,
                   sortTasksCall, sortTasksArray, sortTasksResult>>

\* ------------------------------------------------------------------------
\* Validation template: validateTaskBatch
\* ------------------------------------------------------------------------
\* the keys of a Map or object filled in the order of the list: each id once,
\* at the place of its first occurrence
KeysInOrder(list) ==
    LET keys[i \in 0..Len(list)] ==
            IF i = 0 THEN <<>>
            ELSE IF Includes(keys[i - 1], list[i].id) THEN keys[i - 1]
            ELSE Append(keys[i - 1], list[i].id)
    IN keys[Len(list)]

\* idCounts.get(id)
idCount(list, id) == Cardinality({i \in 1..Len(list) : list[i].id = id})

\* a batch check that reports no id as a duplicate
duplicateIdsNeverReported(list) == <<>>

\* idCounts.forEach((count, id) => { if (count > 1) duplicateIds.push(id) })
duplicateIdsOf(list) ==
    LET keys == KeysInOrder(list)
        dups[i \in 0..Len(keys)] ==
            IF i = 0 THEN <<>>
            ELSE IF idCount(list, keys[i]) > 1 THEN Append(dups[i - 1], keys[i])
            ELSE dups[i - 1]
    IN dups[Len(keys)]

\* { ...options, existingTasks: tasks }
WithExistingTasks(options, list) == [options EXCEPT !.existingTasks = list]

\* results[task.id] = validateTask(...), task after task: of two tasks with
\* one id the result of the later one stays
batchResults(list, options) ==
    [id \in {list[i].id : i \in 1..Len(list)} |->
        validateTaskTemplate(taskMapGet(list, id), WithExistingTasks(options, list)).value]

\* validateTaskBatch(tasks, options)
validateTaskBatch(list, options) ==
    IF \E i \in 1..Len(list) : DescriptionTrimThrows(list[i], WithExistingTasks(options, list))
    THEN Raised("TypeError")
    ELSE LET results == batchResults(list, options)
             duplicateIds == duplicateIdsOf(list)
             cycles == IF options.checkCircularDependencies
                       THEN findCircularDependencies(list) ELSE <<>>
             globalErrors ==
                 [i \in 1..Len(duplicateIds) |-> "Duplicate task ID found"]
                 \o [i \in 1..Len(cycles) |-> "Circular dependency detected"]
             hasIndividualErrors == \E id \in DOMAIN results : ~results[id].isValid
         IN Returned([overallValid |-> ~hasIndividualErrors /\ Len(globalErrors) = 0,
                      results |-> results,
                      globalErrors |-> globalErrors,
                      duplicateIds |-> duplicateIds,
                      circularDependencies |-> cycles])

\* the tasks validateTaskBatch is called with
BatchTaskDomain ==
    [id : {"1", "2"},
     title : {"t"},
     description : {"t", ""},
     status : {"pending"},
     priority : {"high"},
     complexityScore : {Absent(0)},
     dependencies : {<<>>, <<"1">>, <<"2">>, <<"9">>, <<"2", "9">>},
     subtasks : {Absent(<<>>)}]

BatchOptions ==
    [requireDescriptionForPriority : {Absent({})},
     existingTasks : {<<>>},
     allowEmptySubtasks : {FALSE},
     checkCircularDependencies : {TRUE, FALSE}]

BatchInit ==
    /\ batchInput \in [tasks : SeqsUpTo(BatchTaskDomain, MaxBatchLen), options : BatchOptions]
    /\ batchResult = NoCall

\* a caller calls validateTaskBatch(tasks, options)
ValidateTaskBatch ==
    /\ ~batchResult.done
    /\ batchResult' = [done |-> TRUE,
                       res |-> validateTaskBatch(batchInput.tasks, batchInput.options)]
    /\ UNCHANGED <<batchInput, valInput, valResult, lookupCall, lookupResult,
                   sortVars, cycVars, storeVars, hookVars,
                   wouldCall, wouldResult,
                   seqIdInput, seqIdResult,
                   workflow,
                   utRoot, utDisk, utData, utCall, utLog, utCalls,
                   customStorage, instances, moduleCall,
                   sortTasksCall, sortTasksArray, sortTasksResult>>

\* ------------------------------------------------------------------------
\* Status and priority lookups (config template, StatusBadge, PriorityIndicator)
\* ------------------------------------------------------------------------
\* STATUS_CONFIG: title, icon, color and canTransitionTo of each status
STATUS_CONFIG ==
    [pending |-> [title |-> "Pending", icon |-> "Circle", color |-> "PrimaryText",
                  canTransitionTo |-> <<"in-progress", "cancelled">>],
     review |-> [title |-> "Review", icon |-> "Eye", color |-> "Orange",
                 canTransitionTo |-> <<"done", "in-progress">>],
     done |-> [title |-> "Done", icon |-> "CheckCircle", color |-> "Green",
               canTransitionTo |-> <<"in-progress">>],
     deferred |-> [title |-> "Deferred", icon |-> "Pause", color |-> "Yellow",
                   canTransitionTo |-> <<"pending", "cancelled">>],
     cancelled |-> [title |-> "Cancelled", icon |-> "XMarkCircle", color |-> "Red",
                    canTransitionTo |-> <<"pending">>]]
    @@ ("in-progress" :> [title |-> "In Progress", icon |-> "Clock", color |-> "Blue",
                          canTransitionTo |-> <<"review", "done", "deferred">>])

\* PRIORITY_CONFIG: label, icon, color and weight of each priority
PRIORITY_CONFIG ==
    [high |-> [label |-> "High Priority", icon |-> "ExclamationMark", color |-> "Red",
               weight |-> PRIORITY_CONFIG_weight("high")],
     medium |-> [label |-> "Medium Priority", icon |-> "Minus", color |-> "Orange",
                 weight |-> PRIORITY_CONFIG_weight("medium")],
     low |-> [label |-> "Low Priority", icon |-> "ChevronDown", color |-> "PrimaryText",
              weight |-> PRIORITY_CONFIG_weight("low")]]

\* STATUS_CONFIG[status] and PRIORITY_CONFIG[priority] are defined
IsStatusKey(status) == status \in DOMAIN STATUS_CONFIG
IsPriorityKey(priority) == priority \in DOMAIN PRIORITY_CONFIG

\* the values the helpers return
Value(kind, items) == [kind |-> kind, items |-> items]
Null == Value("null", <<>>)
UndefinedValue == Value("undefined", <<>>)

\* STATUS_CONFIG[status]?.icon || Icon.Circle
getStatusIcon(status) ==
    Value("icon", <<IF IsStatusKey(status) THEN STATUS_CONFIG[status].icon ELSE "Circle">>)
\* STATUS_CONFIG[status]?.color || Color.PrimaryText
getStatusColor(status) ==
    Value("color", <<IF IsStatusKey(status) THEN STATUS_CONFIG[status].color
                     ELSE "PrimaryText">>)
\* STATUS_CONFIG[status]?.title || status
getStatusTitle(status) ==
    Value("text", <<IF IsStatusKey(status) THEN STATUS_CONFIG[status].title ELSE status>>)
\* a table in which done is final
getValidTransitionsDoneIsFinal(currentStatus) ==
    IF IsStatusKey(currentStatus) /\ currentStatus # "done"
    THEN STATUS_CONFIG[currentStatus].canTransitionTo
    ELSE <<>>

\* STATUS_CONFIG[currentStatus]?.canTransitionTo || []
getValidTransitions(currentStatus) ==
    IF IsStatusKey(currentStatus) THEN STATUS_CONFIG[currentStatus].canTransitionTo ELSE <<>>
\* getValidTransitions(from).includes(to)
isValidTransition(from, to) == Includes(getValidTransitions(from), to)
\* STATUS_CONFIG[status]
getStatusConfig(status) ==
    IF IsStatusKey(status)
    THEN Value("config", <<STATUS_CONFIG[status].title, STATUS_CONFIG[status].icon,
                           STATUS_CONFIG[status].color>>)
    ELSE UndefinedValue
\* StatusBadge, getStatusBadgeData, getStatusBadgeWithCount: if (!config) return null
getStatusBadgeData(status) ==
    IF IsStatusKey(status)
    THEN Value("badge", <<STATUS_CONFIG[status].icon, STATUS_CONFIG[status].color>>)
    ELSE Null
\* statuses.map(status => getStatusBadgeData(status)).filter(Boolean)
getMultiStatusBadges(statuses) ==
    LET badges[i \in 0..Len(statuses)] ==
            IF i = 0 THEN <<>>
            ELSE IF IsStatusKey(statuses[i])
            THEN Append(badges[i - 1], getStatusBadgeData(statuses[i]))
            ELSE badges[i - 1]
    IN badges[Len(statuses)]
\* getStatusFilterBadges(selectedStatuses, allStatuses): config.icon is read
\* from STATUS_CONFIG[status] without a test that it is defined
getStatusFilterBadges(selectedStatuses, allStatuses) ==
    IF \E i \in 1..Len(allStatuses) : ~IsStatusKey(allStatuses[i])
    THEN Raised("TypeError")
    ELSE Returned(Value("badges",
             [i \in 1..Len(allStatuses) |->
                 IF Includes(selectedStatuses, allStatuses[i])
                 THEN STATUS_CONFIG[allStatuses[i]].color ELSE "SecondaryText"]))

\* PRIORITY_CONFIG[priority]?.icon || Icon.Minus
getPriorityIcon(priority) ==
    Value("icon", <<IF IsPriorityKey(priority) THEN PRIORITY_CONFIG[priority].icon
                    ELSE "Minus">>)
\* PRIORITY_CONFIG[priority]?.color || Color.PrimaryText
getPriorityColor(priority) ==
    Value("color", <<IF IsPriorityKey(priority) THEN PRIORITY_CONFIG[priority].color
                     ELSE "PrimaryText">>)
\* PRIORITY_CONFIG[priority]?.label || `${priority} priority`
getPriorityLabel(priority) ==
    Value("text", <<IF IsPriorityKey(priority) THEN PRIORITY_CONFIG[priority].label
                    ELSE "priority">>)
\* PRIORITY_CONFIG[priority]
getPriorityConfig(priority) ==
    IF IsPriorityKey(priority)
    THEN Value("config", <<PRIORITY_CONFIG[priority].label, PRIORITY_CONFIG[priority].icon,
                           PRIORITY_CONFIG[priority].color>>)
    ELSE UndefinedValue
\* PriorityIndicator, getPriorityBadgeData: if (!config) return null
getPriorityBadgeData(priority) ==
    IF IsPriorityKey(priority)
    THEN Value("badge", <<PRIORITY_CONFIG[priority].icon, PRIORITY_CONFIG[priority].color>>)
    ELSE Null

\* a key that neither STATUS_CONFIG nor PRIORITY_CONFIG has
UnknownKey == "unknown"

LookupKeys == DOMAIN STATUS_CONFIG \cup DOMAIN PRIORITY_CONFIG \cup {UnknownKey}

StatusHelpers ==
    {"getStatusIcon", "getStatusColor", "getStatusTitle", "getValidTransitions",
     "isValidTransition", "getStatusConfig", "StatusBadge", "getStatusBadgeData",
     "getStatusBadgeWithCount", "getMultiStatusBadges", "getStatusFilterBadges"}

PriorityHelpers ==
    {"getPriorityIcon", "getPriorityColor", "getPriorityWeight", "getPriorityLabel",
     "getPriorityConfig", "PriorityIndicator", "getPriorityBadgeData"}

\* the calls of the model: helper(key), isValidTransition(key, other),
\* getMultiStatusBadges([other, key]), getStatusFilterBadges([other], [other, key])
LookupCalls == [helper : StatusHelpers \cup PriorityHelpers, key : LookupKeys,
                other : {"pending", "done"}]

\* what the called helper returns or throws
LookupApply(call) ==
    LET k == call.key
        h == call.helper
    IN CASE h = "getStatusIcon" -> Returned(getStatusIcon(k))
         [] h = "getStatusColor" -> Returned(getStatusColor(k))
         [] h = "getStatusTitle" -> Returned(getStatusTitle(k))
         [] h = "getValidTransitions" -> Returned(Value("list", getValidTransitions(k)))
         [] h = "isValidTransition" ->
                Returned(Value("boolean", <<isValidTransition(k, call.other)>>))
         [] h = "getStatusConfig" -> Returned(getStatusConfig(k))
         [] h \in {"StatusBadge", "getStatusBadgeData", "getStatusBadgeWithCount"} ->
                Returned(getStatusBadgeData(k))
         [] h = "getMultiStatusBadges" ->
                Returned(Value("badges", getMultiStatusBadges(<<call.other, k>>)))
         [] h = "getStatusFilterBadges" ->
                getStatusFilterBadges(<<call.other>>, <<call.other, k>>)
         [] h = "getPriorityIcon" -> Returned(getPriorityIcon(k))
         [] h = "getPriorityColor" -> Returned(getPriorityColor(k))
         [] h = "getPriorityWeight" -> Returned(Value("number", <<getPriorityWeight(k)>>))
         [] h = "getPriorityLabel" -> Returned(getPriorityLabel(k))
         [] h = "getPriorityConfig" -> Returned(getPriorityConfig(k))
         [] h \in {"PriorityIndicator", "getPriorityBadgeData"} ->
                Returned(getPriorityBadgeData(k))

LookupInit == lookupCall \in LookupCalls /\ lookupResult = NoCall

\* a caller calls one of the helpers
Lookup ==
    /\ ~lookupResult.done
    /\ lookupResult' = [done |-> TRUE, res |-> LookupApply(lookupCall)]
    /\ UNCHANGED <<lookupCall, valInput, valResult, batchInput, batchResult,
                   sortVars, cycVars, storeVars, hookVars,
                   wouldCall, wouldResult,
                   seqIdInput, seqIdResult,
                   workflow,
                   utRoot, utDisk, utData, utCall, utLog, utCalls,
                   customStorage, instances, moduleCall,
                   sortTasksCall, sortTasksArray, sortTasksResult>>

\* ------------------------------------------------------------------------
\* Validation template: wouldCreateCircularDependency
\* ------------------------------------------------------------------------
\* tasks.map(task => task.id === taskId
\*     ? {...task, dependencies: [...(task.dependencies || []), newDependencyId]} : task)
modifiedTasks(list, taskId, newDependencyId) ==
    [i \in 1..Len(list) |->
        IF list[i].id = taskId
        THEN [list[i] EXCEPT !.dependencies = Append(@, newDependencyId)]
        ELSE list[i]]

wouldCreateCircularDependency(list, taskId, newDependencyId) ==
    findCircularDependencies(modifiedTasks(list, taskId, newDependencyId)) # <<>>

NoWouldCall == [tasks |-> <<>>, taskId |-> "", newDependencyId |-> ""]

WouldIdle == wouldCall = NoWouldCall /\ wouldResult = [done |-> FALSE, value |-> FALSE]

\* a caller asks whether a dependency may be added; the list it passed is
\* the caller's and stays as it is
WouldCreateCircularDependency ==
    /\ ~wouldResult.done
    /\ wouldResult' = [done |-> TRUE,
                       value |-> wouldCreateCircularDependency(wouldCall.tasks,
                                     wouldCall.taskId, wouldCall.newDependencyId)]
    /\ UNCHANGED <<wouldCall, valInput, valResult, batchInput, batchResult, lookupCall,
                   lookupResult, sortVars, cycVars, storeVars, hookVars,
                   seqIdInput, seqIdResult,
                   workflow,
                   utRoot, utDisk, utData, utCall, utLog, utCalls,
                   customStorage, instances, moduleCall,
                   sortTasksCall, sortTasksArray, sortTasksResult>>

\* ------------------------------------------------------------------------
\* helpers.ts: generateSequentialId
\* ------------------------------------------------------------------------
\* a JavaScript number: an integer or NaN
Num(n) == [isNaN |-> FALSE, n |-> n]

NaN == [isNaN |-> TRUE, n |-> 0]

\* the ids the callers of the model hold: decimal numbers, a number with a
\* leading zero, a negative number, text, and a number followed by text
SequentialSampleIds == {"0", "1", "2", "3", "01", "-1", "abc", "2abc"}

\* parseInt(id): the longest prefix that is an optionally signed decimal
\* number, NaN when there is none
parseInt(id) ==
    CASE id = "0" -> Num(0)
      [] id = "1" -> Num(1)
      [] id = "2" -> Num(2)
      [] id = "3" -> Num(3)
      [] id = "01" -> Num(1)
      [] id = "-1" -> Num(0 - 1)
      [] id = "2abc" -> Num(2)
      [] OTHER -> NaN

\* Number.prototype.toString of the integers generateSequentialId returns
DecimalDigits == <<"1", "2", "3", "4", "5", "6", "7", "8", "9">>

NumberToString(n) == DecimalDigits[n]

\* .map(task => parseInt(task.id)).filter(id => !isNaN(id))
parsedIds(existingIds) ==
    LET IsNumber(v) == ~v.isNaN
    IN FilterSeq([i \in 1..Len(existingIds) |-> parseInt(existingIds[i])], IsNumber)

\* .sort((a, b) => a - b)
sortedIds(existingIds) ==
    LET Difference(a, b) == a.n - b.n
    IN SortBy(parsedIds(existingIds), Difference)

\* the for loop: nextId grows while the sorted ids continue 1, 2, 3, ...
RECURSIVE nextIdFrom(_, _, _)
nextIdFrom(ids, i, nextId) ==
    IF i > Len(ids) THEN nextId
    ELSE IF ids[i].n = nextId THEN nextIdFrom(ids, i + 1, nextId + 1)
    ELSE nextId

\* generateSequentialId(existingTasks); existingIds are the ids of the tasks
generateSequentialId(existingIds) ==
    NumberToString(nextIdFrom(sortedIds(existingIds), 1, 1))

NoSeqIdCall == [done |-> FALSE, id |-> ""]

SeqIdIdle == seqIdInput = <<>> /\ seqIdResult = NoSeqIdCall

SeqIdInit ==
    /\ seqIdInput \in SeqsUpTo(SequentialSampleIds, MaxExistingIds)
    /\ seqIdResult = NoSeqIdCall

\* a caller asks for the next id
GenerateSequentialId ==
    /\ ~seqIdResult.done
    /\ seqIdResult' = [done |-> TRUE, id |-> generateSequentialId(seqIdInput)]
    /\ UNCHANGED <<seqIdInput, wouldCall, wouldResult, valInput, valResult, batchInput,
                   batchResult, lookupCall, lookupResult, sortVars, cycVars, storeVars,
                   hookVars,
                   workflow,
                   utRoot, utDisk, utData, utCall, utLog, utCalls,
                   customStorage, instances, moduleCall,
                   sortTasksCall, sortTasksArray, sortTasksResult>>

\* ------------------------------------------------------------------------
\* A task's status led along the transition table (config template)
\* ------------------------------------------------------------------------
\* the six statuses, in the order of STATUS_CONFIG
WorkflowStatuses == <<"pending", "in-progress", "review", "done", "deferred", "cancelled">>

NoWorkflow == [start |-> "", status |-> "", steps |-> 0]

WorkflowIdle == workflow = NoWorkflow

WorkflowInit ==
    \E status \in Range(WorkflowStatuses) :
        workflow = [start |-> status, status |-> status, steps |-> 0]

\* a caller asks getValidTransitions for the statuses that may follow and
\* moves the task to one of them
FollowTransition ==
    /\ workflow.steps < MaxTransitions
    /\ \E to \in Range(getValidTransitions(workflow.status)) :
          workflow' = [workflow EXCEPT !.status = to, !.steps = @ + 1]
    /\ UNCHANGED <<seqIdInput, seqIdResult, wouldCall, wouldResult, valInput, valResult,
                   batchInput, batchResult, lookupCall, lookupResult, sortVars, cycVars,
                   storeVars, hookVars,
                   utRoot, utDisk, utData, utCall, utLog, utCalls,
                   customStorage, instances, moduleCall,
                   sortTasksCall, sortTasksArray, sortTasksResult>>

\* ------------------------------------------------------------------------
\* useTasks (hook template) and the Change Status actions of TaskListItem
\* ------------------------------------------------------------------------
\* getAvailableStatuses(currentStatus) of TaskListItem: allStatuses without
\* the current one
getAvailableStatuses(currentStatus) ==
    LET Other(status) == status # currentStatus
    IN FilterSeq(WorkflowStatuses, Other)

\* the ids of the tasks of a project, and an id none of them has
UtIds == <<"1", "2">>
UtUnknownId == "9"

\* a status outside the enumeration
UtBadStatus == "bogus"

UtTask(id, status) == [id |-> id, status |-> status]

UtIdsOf(list) == {list[i].id : i \in 1..Len(list)}

\* tasks.find(t => t.id === taskId), when some task has the id
UtFind(list, taskId) == list[CHOOSE i \in 1..Len(list) : list[i].id = taskId]

\* validateTask of utils/helpers: the status is one of the enumeration
utValidateTask(task) == task.status \in Range(WorkflowStatuses)

\* { ...existingTask, ...updates }
UtMerge(existing, updates) ==
    [existing EXCEPT !.status = IF updates.status = Undefined THEN @ ELSE updates.status]

\* writeTask(projectRoot, taskId, updates) of utils/api: the stored record
\* is replaced by the record with the updates
apiWriteTask(disk, taskId, updates) ==
    [i \in 1..Len(disk) |->
        IF disk[i].id = taskId THEN UtMerge(disk[i], updates) ELSE disk[i]]

\* deleteTask(projectRoot, taskId) of utils/api
apiDeleteTask(disk, taskId) ==
    LET Keep(t) == t.id # taskId
    IN FilterSeq(disk, Keep)

\* createTask(projectRoot, newTaskData) of utils/api: the record gets the
\* first id that is free
apiCreateTask(disk, data) ==
    LET free == {i \in 1..Len(UtIds) : UtIds[i] \notin UtIdsOf(disk)}
        first == CHOOSE i \in free : \A j \in free : i <= j
    IN Append(disk, UtTask(UtIds[first], data.status))

\* what the write of an operation does to the stored tasks
UtApplyWrite(disk, call) ==
    CASE call.op = "updateTask" -> apiWriteTask(disk, call.taskId, call.updates)
      [] call.op = "deleteTask" -> apiDeleteTask(disk, call.taskId)
      [] call.op = "createTask" -> apiCreateTask(disk, call.updates)
      [] OTHER -> disk

UtNoCall == [op |-> "none", taskId |-> "", updates |-> [status |-> Undefined],
             pc |-> "idle", outcome |-> "none"]

\* the catch block: await handleError(error); throw error
UtCaught == <<"handleError", "thrown">>

\* a write that is not awaited: revalidate is called at once and a failure
\* of the write reaches no catch block
utAfterWriteNotAwaited(ok) ==
    [pc |-> "revalidating", outcome |-> "none",
     events |-> IF ok THEN <<"revalidate", "written">> ELSE <<"revalidate", "writeFailed">>]

\* await writeTask / deleteTask / createTask(...); await revalidate(): the
\* write has completed, then revalidate is called; a write that fails goes
\* to the catch block
utAfterWrite(ok) ==
    IF ok
    THEN [pc |-> "revalidating", outcome |-> "none", events |-> <<"written", "revalidate">>]
    ELSE [pc |-> "done", outcome |-> "rejected", events |-> <<"writeFailed">> \o UtCaught]

\* the guard clauses of an operation, in the order of the code: what stops it
\* before the write, "" when nothing does
utStoppedBy(call) ==
    IF utRoot = "" THEN "Project root not configured"
    ELSE IF call.op \in {"updateTask", "deleteTask"} /\ call.taskId \notin UtIdsOf(utData.tasks)
    THEN "Task not found"
    ELSE IF call.op = "updateTask"
            /\ ~utValidateTask(UtMerge(UtFind(utData.tasks, call.taskId), call.updates))
    THEN "Invalid task data"
    ELSE IF call.op = "createTask" /\ ~utValidateTask(UtTask("temp", call.updates.status))
    THEN "Invalid task data"
    ELSE ""

UtIdle ==
    /\ utRoot = "" /\ utDisk = <<>> /\ utData = [loaded |-> FALSE, tasks |-> <<>>]
    /\ utCall = UtNoCall /\ utLog = <<>> /\ utCalls = 0

\* useTasks(options) has been called: no data yet (initialData: null)
UtInit ==
    /\ utRoot \in {"", "/project"}
    /\ utDisk \in {d \in SeqsUpTo([id : Range(UtIds), status : Range(WorkflowStatuses)],
                                  MaxUtTasks) :
                      \A i \in 1..Len(d) : d[i].id = UtIds[i]}
    /\ utData = [loaded |-> FALSE, tasks |-> <<>>]
    /\ utCall = UtNoCall /\ utLog = <<>> /\ utCalls = 0

UtOthers ==
    <<workflow, seqIdInput, seqIdResult, wouldCall, wouldResult, valInput, valResult,
      batchInput, batchResult, lookupCall, lookupResult, sortVars, cycVars, storeVars,
      hookVars, customStorage, instances, moduleCall,
      sortTasksCall, sortTasksArray, sortTasksResult>>

\* useCachedPromise runs the fetch (execute: Boolean(projectRoot)) and
\* readTasks answers
UtFetched ==
    /\ utRoot # "" /\ ~utData.loaded /\ utCall.pc \in {"idle", "done"}
    /\ utData' = [loaded |-> TRUE, tasks |-> utDisk]
    /\ UNCHANGED <<utRoot, utDisk, utCall, utLog, utCalls, UtOthers>>

\* updateTask, deleteTaskById or createNewTask up to its first await
UtBegin(call) ==
    /\ utCall.pc \in {"idle", "done"} /\ utCalls < MaxUtCalls
    /\ utCalls' = utCalls + 1
    /\ IF utStoppedBy(call) = "Project root not configured"
       THEN /\ utCall' = [call EXCEPT !.pc = "done", !.outcome = "rejected"]
            /\ utLog' = <<"thrown">>
       ELSE IF utStoppedBy(call) # ""
       THEN /\ utCall' = [call EXCEPT !.pc = "done", !.outcome = "rejected"]
            /\ utLog' = UtCaught
       ELSE /\ call.op = "createTask" => Len(utDisk) < MaxUtTasks
            /\ utCall' = [call EXCEPT !.pc = "writing"]
            /\ utLog' = <<"writeStart">>
    /\ UNCHANGED <<utRoot, utDisk, utData, UtOthers>>

\* updateTask(taskId, updates)
UtUpdateTask(taskId, updates) ==
    UtBegin([UtNoCall EXCEPT !.op = "updateTask", !.taskId = taskId, !.updates = updates])

\* updateTaskStatus(taskId, newStatus), called by the Change Status action
\* of the list item of a task for one of the statuses it offers
UtUpdateTaskStatus(i, newStatus) ==
    /\ i \in 1..Len(utData.tasks)
    /\ newStatus \in Range(getAvailableStatuses(utData.tasks[i].status))
    /\ UtUpdateTask(utData.tasks[i].id, [status |-> newStatus])

\* deleteTask(taskId)
UtDeleteTask(taskId) == UtBegin([UtNoCall EXCEPT !.op = "deleteTask", !.taskId = taskId])

\* createTask(taskData)
UtCreateTask(data) == UtBegin([UtNoCall EXCEPT !.op = "createTask", !.updates = data])

\* the write of utils/api answers
UtWriteDone(ok) ==
    /\ utCall.pc = "writing"
    /\ utDisk' = IF ok THEN UtApplyWrite(utDisk, utCall) ELSE utDisk
    /\ utCall' = [utCall EXCEPT !.pc = utAfterWrite(ok).pc,
                                !.outcome = utAfterWrite(ok).outcome]
    /\ utLog' = utLog \o utAfterWrite(ok).events
    /\ UNCHANGED <<utRoot, utData, utCalls, UtOthers>>

\* the fetch started by revalidate() answers. A readTasks that fails goes
\* through the fetcher's catch (handleError) and keeps the previous data;
\* whether the promise of revalidate then rejects is the library's choice.
UtRevalidated(ok, rejects) ==
    /\ utCall.pc = "revalidating"
    /\ rejects => ~ok
    /\ utData' = IF ok THEN [loaded |-> TRUE, tasks |-> utDisk] ELSE utData
    /\ utCall' = [utCall EXCEPT !.pc = "done",
                                !.outcome = IF rejects THEN "rejected" ELSE "resolved"]
    /\ utLog' = utLog \o (IF ok THEN <<"revalidated">> ELSE <<"loadFailed", "revalidated">>)
                      \o (IF rejects THEN UtCaught ELSE <<"successToast">>)
    /\ UNCHANGED <<utRoot, utDisk, utCalls, UtOthers>>

\* ------------------------------------------------------------------------
\* storage.ts: the module-level functions and the custom storage instance
\* ------------------------------------------------------------------------
\* the instance the module creates when it is loaded:
\* const defaultStorage = createStorage(getDefaultStorageConfig())
defaultStorage == "defaultStorage"

\* the instances a caller builds and hands to setStorage
CallerStorages == {"s1", "s2"}

StorageInstances == {defaultStorage} \cup CallerStorages

\* let customStorage: TaskStorage | null = null
NoCustomStorage == "null"

\* getStorage(): customStorage || defaultStorage
getStorage == IF customStorage # NoCustomStorage THEN customStorage ELSE defaultStorage

\* the instance loadTasks(), saveTasks(tasks) and clearTasks() of the module
\* call: return defaultStorage.loadTasks() and so on
ModuleStorage == defaultStorage

NoModuleCall ==
    [fn |-> "none", custom |-> NoCustomStorage, reached |-> defaultStorage,
     held |-> <<>>, result |-> <<>>]

ModuleIdle ==
    /\ customStorage = NoCustomStorage
    /\ instances = [s \in StorageInstances |-> <<>>]
    /\ moduleCall = NoModuleCall

\* the module has been loaded; each instance holds what earlier runs left
ModuleInit ==
    /\ customStorage = NoCustomStorage
    /\ instances \in [StorageInstances -> SaveLists]
    /\ moduleCall = NoModuleCall

\* a call of a module-level function: what customStorage was, the instance
\* the call went to, what the instance of getStorage() held and the answer
ModuleCalled(fn, result) ==
    [fn |-> fn, custom |-> customStorage, reached |-> ModuleStorage,
     held |-> instances[getStorage], result |-> result]

ModuleOthers ==
    <<workflow, seqIdInput, seqIdResult, wouldCall, wouldResult, valInput, valResult,
      batchInput, batchResult, lookupCall, lookupResult, sortVars, cycVars, storeVars,
      hookVars, utRoot, utDisk, utData, utCall, utLog, utCalls,
      sortTasksCall, sortTasksArray, sortTasksResult>>

\* setStorage(storage): customStorage = storage
setStorage(storage) ==
    /\ customStorage' = storage
    /\ UNCHANGED <<instances, moduleCall, ModuleOthers>>

\* loadTasks() of the module, as useSimpleTasks calls it
ModuleLoadTasks ==
    /\ moduleCall' = ModuleCalled("loadTasks", instances[ModuleStorage])
    /\ UNCHANGED <<customStorage, instances, ModuleOthers>>

\* saveTasks(tasks) of the module, as useSimpleTasks calls it
ModuleSaveTasks(list) ==
    /\ instances' = [instances EXCEPT ![ModuleStorage] = list]
    /\ moduleCall' = ModuleCalled("saveTasks", list)
    /\ UNCHANGED <<customStorage, ModuleOthers>>

\* clearTasks() of the module
ModuleClearTasks ==
    /\ instances' = [instances EXCEPT ![ModuleStorage] = <<>>]
    /\ moduleCall' = ModuleCalled("clearTasks", <<>>)
    /\ UNCHANGED <<customStorage, ModuleOthers>>

\* getStorage().saveTasks(tasks): a caller that uses the instance directly
GetStorageSaveTasks(list) ==
    /\ instances' = [instances EXCEPT ![getStorage] = list]
    /\ UNCHANGED <<customStorage, moduleCall, ModuleOthers>>

\* ------------------------------------------------------------------------
\* helpers.ts: sortTasks called with a field and an order
\* ------------------------------------------------------------------------
SortOrders == {"asc", "desc"}

SortTask(id, title, status, priority, createdAt, updatedAt) ==
    [id |-> id, title |-> title, status |-> status, priority |-> priority,
     createdAt |-> createdAt, updatedAt |-> updatedAt]

\* tasks that differ and tie in every field; the dates are getTime() values
SortTaskSamples ==
    {SortTask(1, "apple", "done", "low", 2, 2),
     SortTask(2, "Banana", "todo", "high", 1, 3),
     SortTask(3, "cherry", "in-progress", "medium", 0, 3),
     SortTask(4, "apple", "todo", "high", 1, 0)}

NoSortTasksCall == [done |-> FALSE, tasks |-> <<>>, sort |-> [field |-> "", order |-> ""]]

SortTasksIdle ==
    /\ sortTasksCall = NoSortTasksCall /\ sortTasksArray = <<>> /\ sortTasksResult = <<>>

\* the array a caller holds before it calls sortTasks
SortTasksInit ==
    /\ sortTasksArray \in SeqsUpTo(SortTaskSamples, MaxSortLen)
    /\ sortTasksCall = NoSortTasksCall
    /\ sortTasksResult = <<>>

\* what the caller's array holds after sortedTasks.sort(...) had sorted the
\* array itself
sortTasksInPlace(list, sort) == sortTasks(list, sort)

\* const sortedTasks = [...tasks]: the sort works on a copy and the caller's
\* array holds after the call what it held before
sortTasksArgumentAfter(list, sort) == list

SortTasksOthers ==
    <<workflow, seqIdInput, seqIdResult, wouldCall, wouldResult, valInput, valResult,
      batchInput, batchResult, lookupCall, lookupResult, sortVars, cycVars, storeVars,
      hookVars, utRoot, utDisk, utData, utCall, utLog, utCalls,
      customStorage, instances, moduleCall>>

\* sortTasks(tasks, sort)
SortTasks(sort) ==
    /\ ~sortTasksCall.done
    /\ sortTasksCall' = [done |-> TRUE, tasks |-> sortTasksArray, sort |-> sort]
    /\ sortTasksResult' = sortTasks(sortTasksArray, sort)
    /\ sortTasksArray' = sortTasksArgumentAfter(sortTasksArray, sort)
    /\ UNCHANGED SortTasksOthers

\* sortByPriority(tasks), sortByCreationDate(tasks), sortByStatus(tasks)
SortByShorthand(name) ==
    SortTasks(CASE name = "sortByPriority" -> [field |-> "priority", order |-> "asc"]
                [] name = "sortByCreationDate" -> [field |-> "createdAt", order |-> "desc"]
                [] name = "sortByStatus" -> [field |-> "status", order |-> "asc"])

\* ------------------------------------------------------------------------
\* The utilities at rest: nothing called yet
\* ------------------------------------------------------------------------
BatchIdle == batchInput = [tasks |-> <<>>, options |-> <<>>] /\ batchResult = NoCall

LookupIdle ==
    lookupCall = [helper |-> "none", key |-> "", other |-> ""] /\ lookupResult = NoCall

\* no utility of the templates is called
UtilIdle == ValIdle /\ BatchIdle /\ LookupIdle /\ WouldIdle /\ SeqIdIdle /\ WorkflowIdle /\ UtIdle /\ ModuleIdle /\ SortTasksIdle

\* ------------------------------------------------------------------------
\* Specifications of the storage adapters and of the hook
\* ------------------------------------------------------------------------
\* the store of an adapter on which list was saved last
SavedStore(a, list) ==
    IF a = "memory" THEN MemorySaveTasks(EmptyStore(a), list)
    ELSE ReplaceStore(EmptyStore(a), SaveText(list))

\* a task saved by an earlier session
PastTask == MkTask(MkId(-1, "r1"), "a", "todo", "high", -1, -1)

StoreInit(kinds) ==
    /\ adapter \in kinds
    /\ store \in {EmptyStore(adapter)} \cup
                 {SavedStore(adapter, <<PastTask>>) : a \in {adapter} \ {"memory"}}
    /\ io = [t \in Slots |-> IdleCall]
    /\ lastWrite = NoWrite
    /\ started = 0

StoreIdle == StoreInit({"memory"})

\* useState's initial values
HookInit ==
    /\ tasks = <<>>
    /\ closure = <<>>
    /\ isLoading = TRUE
    /\ error = NoMessage
    /\ mounted = FALSE
    /\ now = 0
    /\ lastOutcome = NoOutcome
    /\ failed = FALSE
    /\ created = {}

AdapterStep ==
    \E s \in Slots :
        \/ FileOpenTruncate(s)
        \/ FileWrite(s)
        \/ ApiPut(s)
        \/ AsyncRead(s)
        \/ AsyncClear(s)
        \/ IoFailure(s)

StorageNext ==
    \/ \E s \in Slots, list \in SaveLists, fail \in BOOLEAN : CallSaveTasks(s, list, fail)
    \/ \E s \in Slots, fail \in BOOLEAN : CallLoadTasks(s, fail)
    \/ \E s \in Slots, fail \in BOOLEAN : CallClearTasks(s, fail)
    \/ \E s \in Slots : Return(s)
    \/ AdapterStep

Next ==
    \/ \E s \in Slots, fail \in BOOLEAN : Mount(s, fail)
    \/ \E s \in Slots, fail \in BOOLEAN : Refresh(s, fail)
    \/ \E s \in Slots, data \in CreateInputs, rand \in RandomStrings, fail \in BOOLEAN :
          CreateTask(s, data, rand, fail)
    \/ \E s \in Slots, id \in KnownIds, data \in UpdateInputs, fail \in BOOLEAN :
          UpdateTask(s, id, data, fail)
    \/ \E s \in Slots, id \in KnownIds, fail \in BOOLEAN : DeleteTask(s, id, fail)
    \/ \E s \in Slots, fail \in BOOLEAN : DeleteCompletedTasks(s, fail)
    \/ \E s \in Slots, fail \in BOOLEAN : MarkAllAsComplete(s, fail)
    \/ \E s \in Slots : Settle(s)
    \/ Render
    \/ Tick
    \/ ClearError
    \/ \E s \in Slots : FileOpenTruncate(s) \/ FileWrite(s) \/ AsyncRead(s) \/ IoFailure(s)

\* ------------------------------------------------------------------------
\* Specification of the priority sorters
\* ------------------------------------------------------------------------
SortItems == [id : 1..MaxSortLen, priority : Priorities]

\* the lists of tasks with pairwise distinct ids
SortInputs ==
    {s \in SeqsUpTo(SortItems, MaxSortLen) : \A i \in 1..Len(s) : s[i].id = i}

SortIdle == sortInput = <<>> /\ sortOutput = [by |-> "none", list |-> <<>>]

CycleIdle == cycTasks = <<>> /\ cycResult = [done |-> FALSE, cycles |-> <<>>]

SortInit == sortInput \in SortInputs /\ sortOutput = [by |-> "none", list |-> <<>>]

SortWithHelpers ==
    /\ sortOutput.by = "none"
    /\ sortOutput' = [by |-> "helpers", list |-> HelperSortByPriority(sortInput)]
    /\ UNCHANGED <<sortInput, cycVars, utilVars, storeVars, hookVars>>

SortWithIndicator ==
    /\ sortOutput.by = "none"
    /\ sortOutput' = [by |-> "indicator", list |-> IndicatorSortByPriority(sortInput)]
    /\ UNCHANGED <<sortInput, cycVars, utilVars, storeVars, hookVars>>

SortNext == SortWithHelpers \/ SortWithIndicator

InitSort == SortInit /\ CycleIdle /\ StoreIdle /\ HookInit /\ UtilIdle

SpecSort == InitSort /\ [][SortNext]_vars

\* ------------------------------------------------------------------------
\* Specification of the cycle detector
\* ------------------------------------------------------------------------
\* dependency lists without repeated entries
DepLists == {d \in SeqsUpTo(DepIds, MaxDeps) :
                \A i, j \in 1..Len(d) : i # j => d[i] # d[j]}

CycleTaskDomain == [id : TaskIds, dependencies : DepLists]

CycleInit ==
    /\ cycTasks \in SeqsUpTo(CycleTaskDomain, MaxCycleTasks)
    /\ cycResult = [done |-> FALSE, cycles |-> <<>>]

DetectCycles ==
    /\ ~cycResult.done
    /\ cycResult' = [done |-> TRUE, cycles |-> findCircularDependencies(cycTasks)]
    /\ UNCHANGED <<cycTasks, sortVars, utilVars, storeVars, hookVars>>

CycleNext == DetectCycles

InitCycle == CycleInit /\ SortIdle /\ StoreIdle /\ HookInit /\ UtilIdle

SpecCycle == InitCycle /\ [][CycleNext]_vars

\* the adapters under direct callers
InitStorage == StoreInit(AdapterKinds) /\ HookInit /\ SortIdle /\ CycleIdle /\ UtilIdle

SpecStorage == InitStorage /\ [][StorageNext]_vars

\* useSimpleTasks over the default adapter of its environment
Init == StoreInit(DefaultKinds) /\ HookInit /\ SortIdle /\ CycleIdle /\ UtilIdle

Spec == Init /\ [][Next]_vars

\* ------------------------------------------------------------------------
\* Specification of validateTask (validation template)
\* ------------------------------------------------------------------------
InitValidate ==
    ValInit /\ BatchIdle /\ LookupIdle /\ SortIdle /\ CycleIdle /\ StoreIdle /\ HookInit /\ WouldIdle /\ SeqIdIdle /\ WorkflowIdle /\ UtIdle /\ ModuleIdle /\ SortTasksIdle

ValidateNext == ValidateTask

SpecValidate == InitValidate /\ [][ValidateNext]_vars

\* ------------------------------------------------------------------------
\* Specification of validateTaskBatch (validation template)
\* ------------------------------------------------------------------------
InitBatch ==
    BatchInit /\ ValIdle /\ LookupIdle /\ SortIdle /\ CycleIdle /\ StoreIdle /\ HookInit /\ WouldIdle /\ SeqIdIdle /\ WorkflowIdle /\ UtIdle /\ ModuleIdle /\ SortTasksIdle

BatchNext == ValidateTaskBatch

SpecBatch == InitBatch /\ [][BatchNext]_vars

\* ------------------------------------------------------------------------
\* Specification of the status and priority lookups
\* ------------------------------------------------------------------------
InitLookup ==
    LookupInit /\ ValIdle /\ BatchIdle /\ SortIdle /\ CycleIdle /\ StoreIdle /\ HookInit /\ WouldIdle /\ SeqIdIdle /\ WorkflowIdle /\ UtIdle /\ ModuleIdle /\ SortTasksIdle

LookupNext == Lookup

SpecLookup == InitLookup /\ [][LookupNext]_vars

\* ------------------------------------------------------------------------
\* Specification of wouldCreateCircularDependency
\* ------------------------------------------------------------------------
WouldCalls ==
    [tasks : SeqsUpTo(CycleTaskDomain, MaxWouldTasks), taskId : DepIds,
     newDependencyId : DepIds]

WouldInit == wouldCall \in WouldCalls /\ wouldResult = [done |-> FALSE, value |-> FALSE]

InitWould ==
    WouldInit /\ ValIdle /\ BatchIdle /\ LookupIdle /\ SortIdle /\ CycleIdle /\ StoreIdle /\ HookInit /\ SeqIdIdle /\ WorkflowIdle /\ UtIdle /\ ModuleIdle /\ SortTasksIdle

WouldNext == WouldCreateCircularDependency

SpecWould == InitWould /\ [][WouldNext]_vars

\* ------------------------------------------------------------------------
\* Specification of generateSequentialId
\* ------------------------------------------------------------------------
InitSeqId ==
    SeqIdInit /\ ValIdle /\ BatchIdle /\ LookupIdle /\ WouldIdle /\ SortIdle /\ CycleIdle /\ StoreIdle /\ HookInit /\ WorkflowIdle /\ UtIdle /\ ModuleIdle /\ SortTasksIdle

SeqIdNext == GenerateSequentialId

SpecSeqId == InitSeqId /\ [][SeqIdNext]_vars

\* ------------------------------------------------------------------------
\* Specification of the hook's loads and creations: useSimpleTasks whose
\* callers load and create only
\* ------------------------------------------------------------------------
LoadCreateNext ==
    \/ \E s \in Slots, fail \in BOOLEAN : Mount(s, fail)
    \/ \E s \in Slots, fail \in BOOLEAN : Refresh(s, fail)
    \/ \E s \in Slots, data \in CreateInputs, rand \in RandomStrings, fail \in BOOLEAN :
          CreateTask(s, data, rand, fail)
    \/ \E s \in Slots : Settle(s)
    \/ Render
    \/ Tick
    \/ \E s \in Slots : FileOpenTruncate(s)
    \/ \E s \in Slots : FileWrite(s)
    \/ \E s \in Slots : AsyncRead(s)
    \/ \E s \in Slots : IoFailure(s)

SpecLoadCreate == Init /\ [][LoadCreateNext]_vars

\* the storage answers every load, with the tasks or with an error, and the
\* continuation of an answered call runs
LoadFairness ==
    \A s \in Slots :
        /\ WF_vars(AsyncRead(s) \/ (IoFailure(s) /\ io[s].op = "load"))
        /\ WF_vars(Settle(s))

FairSpecLoadCreate == Init /\ [][LoadCreateNext]_vars /\ LoadFairness

\* ------------------------------------------------------------------------
\* Specification of the status transition table
\* ------------------------------------------------------------------------
InitWorkflow ==
    WorkflowInit /\ ValIdle /\ BatchIdle /\ LookupIdle /\ WouldIdle /\ SeqIdIdle /\ SortIdle /\ CycleIdle /\ StoreIdle /\ HookInit /\ UtIdle /\ ModuleIdle /\ SortTasksIdle

WorkflowNext == FollowTransition

SpecWorkflow == InitWorkflow /\ [][WorkflowNext]_vars

\* ------------------------------------------------------------------------
\* Specification of useTasks
\* ------------------------------------------------------------------------
InitUseTasks ==
    UtInit /\ ValIdle /\ BatchIdle /\ LookupIdle /\ WouldIdle /\ SeqIdIdle /\ WorkflowIdle /\ SortIdle /\ CycleIdle /\ StoreIdle /\ HookInit /\ ModuleIdle /\ SortTasksIdle

UseTasksNext ==
    \/ UtFetched
    \/ \E i \in 1..MaxUtTasks, newStatus \in Range(WorkflowStatuses) :
          UtUpdateTaskStatus(i, newStatus)
    \/ \E taskId \in Range(UtIds) \cup {UtUnknownId},
          updates \in [status : {Undefined, UtBadStatus}] : UtUpdateTask(taskId, updates)
    \/ \E taskId \in Range(UtIds) \cup {UtUnknownId} : UtDeleteTask(taskId)
    \/ \E data \in [status : {"pending", UtBadStatus}] : UtCreateTask(data)
    \/ \E ok \in BOOLEAN : UtWriteDone(ok)
    \/ \E ok, rejects \in BOOLEAN : UtRevalidated(ok, rejects)

SpecUseTasks == InitUseTasks /\ [][UseTasksNext]_vars

\* storage.ts: setStorage, getStorage and the module-level functions
InitModule ==
    ModuleInit /\ ValIdle /\ BatchIdle /\ LookupIdle /\ WouldIdle /\ SeqIdIdle /\ WorkflowIdle /\ UtIdle /\ SortIdle /\ CycleIdle /\ StoreIdle /\ HookInit /\ SortTasksIdle

ModuleNext ==
    \/ \E storage \in CallerStorages : setStorage(storage)
    \/ ModuleLoadTasks
    \/ \E list \in SaveLists : ModuleSaveTasks(list)
    \/ ModuleClearTasks
    \/ \E list \in SaveLists : GetStorageSaveTasks(list)

SpecModule == InitModule /\ [][ModuleNext]_vars

\* helpers.ts: sortTasks with every field and order
InitSortTasks ==
    SortTasksInit /\ ValIdle /\ BatchIdle /\ LookupIdle /\ WouldIdle /\ SeqIdIdle /\ WorkflowIdle /\ UtIdle /\ ModuleIdle /\ SortIdle /\ CycleIdle /\ StoreIdle /\ HookInit

SortTasksNext ==
    \/ \E field \in SortFields, order \in SortOrders :
          SortTasks([field |-> field, order |-> order])
    \/ \E name \in {"sortByPriority", "sortByCreationDate", "sortByStatus"} :
          SortByShorthand(name)

SpecSortTasks == InitSortTasks /\ [][SortTasksNext]_vars

\* ------------------------------------------------------------------------
\* Claims
\* ------------------------------------------------------------------------
NoDuplicateIds(list) == \A i, j \in 1..Len(list) : i # j => list[i].id # list[j].id

\* list without its i-th element
RemoveAt(list, i) == SubSeq(list, 1, i - 1) \o SubSeq(list, i + 1, Len(list))

\* the slot in which this step starts the operation op of the hook
StartsIn(s, op) == io[s].st = "idle" /\ io'[s].st # "idle" /\ io'[s].owner = op

\* the collection the adapter holds: what loadTasks() would return now
StoredCollection == LoadTasksOn(adapter, store)

EnvironmentFailures == {"EIO", "SecurityError", "QuotaExceededError"}

\* C1: in useSimpleTasks no two tasks of the in-memory list share an id, after
\* any sequence of operations.
C1_UniqueIds == NoDuplicateIds(tasks)

ThreeCycle == <<[id |-> "A", dependencies |-> <<"B">>],
                [id |-> "B", dependencies |-> <<"C">>],
                [id |-> "C", dependencies |-> <<"A">>]>>

Chain == <<[id |-> "A", dependencies |-> <<"B">>],
           [id |-> "B", dependencies |-> <<"C">>],
           [id |-> "C", dependencies |-> <<>>]>>

\* C2: on {A -> B, B -> C, C -> A} findCircularDependencies reports exactly
\* the cycle [A, B, C]; on {A -> B, B -> C} it reports no cycle.
C2_ReportsCycleABC ==
    cycResult.done =>
        /\ cycTasks = ThreeCycle => cycResult.cycles = << <<"A", "B", "C">> >>
        /\ cycTasks = Chain => cycResult.cycles = <<>>

\* C3: a deleteTask(id) that finds id in the in-memory list removes exactly one
\* task and leaves the others as they were, in their order.
C3_DeleteRemovesExactlyOne ==
    [][\A s \in Slots :
          (StartsIn(s, "deleteTask") /\ Len(tasks') < Len(tasks))
              => \E i \in 1..Len(tasks) : tasks' = RemoveAt(tasks, i)]_vars

\* C4: when the storage call of a hook operation fails, the in-memory list
\* after the operation is the list from before the operation started (here:
\* for an operation no other operation overlapped).
C4_FailureKeepsList ==
    [][\A s \in Slots :
          (Settle(s) /\ io[s].solo /\ ~io[s].res.ok) => tasks' = io[s].before]_vars

\* C5: a storage failure is raised to the caller: an adapter method that fails
\* throws its wrapped error, and a createTask, updateTask or deleteTask whose
\* save failed rejects.
C5_FailureIsRaised ==
    /\ \A s \in Slots :
          (io[s].st = "settled" /\ ~io[s].res.ok)
              => io[s].res.error.wrap = WrapOf(io[s].op) /\ io[s].res.error.cause # ""
    /\ (lastOutcome.op \in {"createTask", "updateTask", "deleteTask"} /\ lastOutcome.ioFailed)
          => lastOutcome.result = "rejected"

C7_NotFoundIsEmpty ==
    \A s \in Slots :
        (/\ io[s].op = "load" /\ io[s].st = "settled"
         /\ lastWrite.kind = "none" /\ store = EmptyStore(adapter)
         /\ io[s].res.error.cause \notin EnvironmentFailures)
            => io[s].res = Ok(<<>>)

\* C8: once two overlapping saveTasks calls have both completed, the stored
\* collection is the argument of the write that took effect last.
C8_LastWriterWins ==
    (/\ \A s \in Slots : ~InFlightWrite(io[s])
     /\ lastWrite.kind = "save" /\ lastWrite.with = {"save"})
        => StoredCollection = Ok(lastWrite.arg)

\* C9: with auto-save, once every operation of the hook has completed and no
\* storage call has failed, the stored collection equals the in-memory list.
C9_StorageFollowsMemory ==
    (AutoSave /\ mounted /\ NoneInFlight(io) /\ ~failed) => StoredCollection = Ok(tasks)

\* C10: both sortByPriority functions return the tasks in descending priority
\* weight and keep the input order among tasks of equal priority; priorities
\* [low, high, medium] come out as [high, medium, low].
C10_SortByPriority ==
    sortOutput.by # "none" =>
        LET out == sortOutput.list
            pos(id) == CHOOSE i \in 1..Len(out) : out[i].id = id
        IN /\ Len(out) = Len(sortInput)
           /\ \A i \in 1..Len(sortInput) : \E j \in 1..Len(out) : out[j] = sortInput[i]
           /\ \A i, j \in 1..Len(out) :
                 i < j => PRIORITY_CONFIG_weight(out[i].priority)
                             >= PRIORITY_CONFIG_weight(out[j].priority)
           /\ \A i, j \in 1..Len(sortInput) :
                 (i < j /\ sortInput[i].priority = sortInput[j].priority)
                     => pos(sortInput[i].id) < pos(sortInput[j].id)
           /\ [i \in 1..Len(sortInput) |-> sortInput[i].priority] = <<"low", "high", "medium">>
                 => [i \in 1..Len(out) |-> out[i].priority] = <<"high", "medium", "low">>

C10_Witness ==
    /\ sortOutput.by = "indicator"
    /\ [i \in 1..Len(sortInput) |-> sortInput[i].priority] = <<"low", "high", "low">>
    /\ [i \in 1..Len(sortOutput.list) |-> sortOutput.list[i].id] = <<2, 1, 3>>

\* the options a caller leaves out: validateTask(task)
IsDefaultOptions(options) ==
    ~options.requireDescriptionForPriority.present /\ options.existingTasks = <<>>

\* a task that is valid but for its priority and description
OtherwiseValid(task) ==
    /\ task.id = "1" /\ task.title = "t" /\ task.status = "pending"
    /\ ~task.complexityScore.present /\ task.dependencies = <<>>
    /\ ~task.subtasks.present

\* C11: with default options validateTask reports a task of priority high
\* with an empty or whitespace-only description as invalid, and the same
\* otherwise valid task with priority medium and an empty description as valid.
C11_HighNeedsDescription ==
    (valResult.done /\ IsDefaultOptions(valInput.options)
        /\ valInput.task.description \in {"", " "})
        => /\ valInput.task.priority = "high"
                => ~valResult.res.raised /\ ~valResult.res.value.isValid
           /\ (valInput.task.priority = "medium" /\ OtherwiseValid(valInput.task)
                  /\ valInput.task.description = "")
                => ~valResult.res.raised /\ valResult.res.value.isValid

C11_Witness ==
    /\ valResult.done /\ IsDefaultOptions(valInput.options)
    /\ OtherwiseValid(valInput.task) /\ valInput.task.priority = "high"
    /\ valInput.task.description = " "
    /\ valResult.res.value.errors = <<"priority tasks must have a description">>

\* the list with every dependency on an id no task has taken out
WithoutMissingDependencies(list) ==
    LET Known(id) == taskMapHas(list, id)
    IN [i \in 1..Len(list) |->
           [list[i] EXCEPT !.dependencies = FilterSeq(@, Known)]]

HasMissingDependency(list, task) ==
    \E k \in 1..Len(task.dependencies) : ~taskMapHas(list, task.dependencies[k])

\* C12: findCircularDependencies skips a dependency on an id no task has (it
\* is in no reported cycle and the report is the one of the list without
\* it), and validateTaskBatch marks the task that holds it invalid with a
\* missing-dependency error.
C12_MissingDependency ==
    (batchResult.done /\ ~batchResult.res.raised) =>
        LET list == batchInput.tasks
            cycles == findCircularDependencies(list)
            results == batchResult.res.value.results
        IN /\ \A c \in 1..Len(cycles) : \A k \in 1..Len(cycles[c]) :
                 taskMapHas(list, cycles[c][k])
           /\ cycles = findCircularDependencies(WithoutMissingDependencies(list))
           /\ \A i \in 1..Len(list) :
                 HasMissingDependency(list, list[i])
                    => /\ ~results[list[i].id].isValid
                       /\ Includes(results[list[i].id].errors, "Missing dependency tasks")

\* C13: validateTask returns a result, it never throws; isValid is true exactly
\* when errors is empty, whatever the warnings are.
C13_StructuredResult ==
    valResult.done =>
        /\ ~valResult.res.raised
        /\ valResult.res.value.isValid <=> (valResult.res.value.errors = <<>>)

\* the result validateTask gives for the i-th task of a batch
IndividualResult(list, options, i) ==
    validateTaskTemplate(list[i], WithExistingTasks(options, list)).value

\* C14: validateTaskBatch returns overallValid = true exactly when every
\* task's own result is valid, no id occurs twice in the batch and, unless the
\* cycle check is disabled, findCircularDependencies finds no cycle;
\* duplicateIds holds each id that occurs more than once, exactly once.
C14_OverallValid ==
    (batchResult.done /\ ~batchResult.res.raised) =>
        LET list == batchInput.tasks
            options == batchInput.options
            out == batchResult.res.value
        IN /\ out.overallValid <=>
                 /\ \A i \in 1..Len(list) : IndividualResult(list, options, i).isValid
                 /\ NoDuplicateIds(list)
                 /\ options.checkCircularDependencies
                       => findCircularDependencies(list) = <<>>
           /\ ~HasDuplicates(out.duplicateIds)
           /\ \A id \in WellFormedIds :
                 Includes(out.duplicateIds, id) <=> idCount(list, id) > 1

C14_Witness ==
    /\ batchResult.done /\ ~batchResult.res.raised
    /\ Len(batchInput.tasks) = 3
    /\ batchInput.tasks[1].id = "1" /\ batchInput.tasks[2].id = "2"
    /\ batchInput.tasks[3].id = "1"
    /\ batchInput.tasks[1].dependencies = <<"2">>
    /\ batchInput.tasks[1].description = "t" /\ batchInput.tasks[2].description = "t"
    /\ batchInput.tasks[3].description = "t"
    /\ batchInput.tasks[2].dependencies = <<>> /\ batchInput.tasks[3].dependencies = <<>>
    /\ batchResult.res.value.duplicateIds = <<"1">>
    /\ ~batchResult.res.value.overallValid

\* the ids at which the outer loop of findCircularDependencies starts a
\* depth-first traversal: those not visited when their turn comes
RECURSIVE dfsStartNodes(_, _, _)
dfsStartNodes(list, i, st) ==
    IF i > Len(list) THEN <<>>
    ELSE IF list[i].id \notin st.visited
    THEN <<list[i].id>> \o dfsStartNodes(list, i + 1, dfs(list, list[i].id, <<list[i].id>>, st))
    ELSE dfsStartNodes(list, i + 1, st)

\* C15: findCircularDependencies reports at most one cycle for each node at
\* which its outer loop starts a traversal.
C15_OneCyclePerStart ==
    cycResult.done =>
        Len(cycResult.cycles)
            <= Len(dfsStartNodes(cycTasks, 1,
                                 [visited |-> {}, recursionStack |-> {}, cycles |-> <<>>]))

\* the key of the call is not a key of the configuration its helper reads
IsUnknownKeyCall(call) ==
    \/ call.helper \in StatusHelpers /\ ~IsStatusKey(call.key)
    \/ call.helper \in PriorityHelpers /\ ~IsPriorityKey(call.key)

\* C16: a status or priority helper given a value that is no key of its
\* configuration raises no error: it returns its fallback (default icon,
\* default color, weight 0, empty transition list), undefined or null.
C16_UnknownKeyNoError ==
    (lookupResult.done /\ IsUnknownKeyCall(lookupCall)) =>
        /\ ~lookupResult.res.raised
        /\ lookupCall.helper = "getStatusIcon"
              => lookupResult.res.value = Value("icon", <<"Circle">>)
        /\ lookupCall.helper = "getPriorityIcon"
              => lookupResult.res.value = Value("icon", <<"Minus">>)
        /\ lookupCall.helper \in {"getStatusColor", "getPriorityColor"}
              => lookupResult.res.value = Value("color", <<"PrimaryText">>)
        /\ lookupCall.helper = "getPriorityWeight"
              => lookupResult.res.value = Value("number", <<0>>)
        /\ lookupCall.helper = "getValidTransitions"
              => lookupResult.res.value = Value("list", <<>>)

\* C17: a createTask with valid data that no other operation overlaps appends
\* exactly one task: the tasks present before stay, in their order, and the
\* new one carries the given fields, a generated id and the current time as
\* createdAt and updatedAt.
C17_CreateAppendsOne ==
    [][\A s \in Slots, data \in CreateInputs, rand \in RandomStrings, fail \in BOOLEAN :
          (/\ CreateTask(s, data, rand, fail)
           /\ validateTaskErrors(data) = <<>>
           /\ NoneInFlight(io))
              => tasks' = Append(tasks, MkTask(generateId(rand), data.title, data.status,
                                               data.priority, now, now))]_vars

\* C18: an updateTask(id, data) on the id of a task of the list, with data
\* that is valid, replaces that task's record only: it keeps id and createdAt,
\* takes the fields of data and the current time as updatedAt; the other
\* tasks, the length and the order stay.
C18_UpdateReplacesOne ==
    [][\A s \in Slots, id \in KnownIds, data \in UpdateInputs, fail \in BOOLEAN :
          (/\ UpdateTask(s, id, data, fail)
           /\ id \in IdsOf(tasks)
           /\ validateTaskErrors(MergeUpdate(FindTask(tasks, id), data)) = <<>>)
              => tasks' = [i \in 1..Len(tasks) |->
                              IF tasks[i].id = id
                              THEN MergeUpdate(tasks[i], data)
                              ELSE tasks[i]]]_vars

\* the operation was rejected before persistence: it threw, the error state
\* has a message, the list is as before and no storage call was started
RejectedBeforePersistence ==
    /\ lastOutcome'.result = "rejected"
    /\ error' # NoMessage
    /\ tasks' = tasks
    /\ io' = io /\ store' = store

\* C19: a createTask or updateTask whose data fails validation, and an
\* updateTask or deleteTask on an id that is not in the list, rejects, sets the
\* error message, leaves the list unchanged and does not call saveTasks.
C19_InvalidIsRejected ==
    [][/\ \A s \in Slots, data \in CreateInputs, rand \in RandomStrings, fail \in BOOLEAN :
             (CreateTask(s, data, rand, fail) /\ validateTaskErrors(data) # <<>>)
                 => RejectedBeforePersistence
       /\ \A s \in Slots, id \in KnownIds, data \in UpdateInputs, fail \in BOOLEAN :
             (/\ UpdateTask(s, id, data, fail)
              /\ \/ id \notin IdsOf(tasks)
                 \/ validateTaskErrors(MergeUpdate(FindTask(tasks, id), data)) # <<>>)
                 => RejectedBeforePersistence
       /\ \A s \in Slots, id \in KnownIds, fail \in BOOLEAN :
             (DeleteTask(s, id, fail) /\ id \notin IdsOf(tasks))
                 => RejectedBeforePersistence]_vars

\* the dependency graph of a task list, restricted to the ids present: an
\* edge leads from the id of a task to each of its dependencies that is the
\* id of a task of the list
PresentIds(list) == {list[i].id : i \in 1..Len(list)}

DependsOn(list, a, b) ==
    /\ b \in PresentIds(list)
    /\ \E i \in 1..Len(list) :
          /\ list[i].id = a
          /\ \E k \in 1..Len(list[i].dependencies) : list[i].dependencies[k] = b

\* the ids reached from the set `from` by one to n edges
RECURSIVE ReachedWithin(_, _, _)
ReachedWithin(list, from, n) ==
    IF n = 0
    THEN {}
    ELSE LET next == {b \in PresentIds(list) : \E a \in from : DependsOn(list, a, b)}
         IN next \cup ReachedWithin(list, next, n - 1)

HasDirectedCycle(list) ==
    \E a \in PresentIds(list) : a \in ReachedWithin(list, {a}, Cardinality(PresentIds(list)))

\* C20: findCircularDependencies returns a non-empty list exactly when the
\* dependency graph restricted to the ids present has a directed cycle
\* (a self-dependency is one), whatever the task list and its order.
C20_CycleIffReported ==
    cycResult.done => ((cycResult.cycles # <<>>) <=> HasDirectedCycle(cycTasks))

\* one reported cycle names each task of the loop once: its ids are pairwise
\* distinct, each depends on the next and the last depends on the first
IsSimpleLoop(list, cycle) ==
    /\ Len(cycle) >= 1
    /\ \A i, j \in 1..Len(cycle) : i # j => cycle[i] # cycle[j]
    /\ \A i \in 1..(Len(cycle) - 1) : DependsOn(list, cycle[i], cycle[i + 1])
    /\ DependsOn(list, cycle[Len(cycle)], cycle[1])

\* C21: every cycle findCircularDependencies reports is a sequence of pairwise
\* distinct ids, each depending on the next and the last on the first, so the
\* message "cycle joined by arrows, then cycle[0]" names each task once
\* before it closes the loop.
C21_CycleIsSimpleLoop ==
    cycResult.done =>
        \A k \in 1..Len(cycResult.cycles) : IsSimpleLoop(cycTasks, cycResult.cycles[k])

\* adding the edge taskId -> newDependencyId closes a cycle through it
ClosesCycle(list, taskId, newDependencyId) ==
    \/ newDependencyId = taskId
    \/ taskId \in ReachedWithin(list, {newDependencyId}, Cardinality(PresentIds(list)))

\* C22: wouldCreateCircularDependency(tasks, taskId, newDependencyId) is true
\* exactly when the new dependency closes a cycle through the new edge:
\* newDependencyId is taskId, or taskId is reached from newDependencyId over
\* the existing dependencies; it is false when the new edge is on no cycle.
\* Both ids are ids of tasks of the list.
C22_TrueIffEdgeClosesCycle ==
    (/\ wouldResult.done
     /\ wouldCall.taskId \in PresentIds(wouldCall.tasks)
     /\ wouldCall.newDependencyId \in PresentIds(wouldCall.tasks))
        => (wouldResult.value <=> ClosesCycle(wouldCall.tasks, wouldCall.taskId,
                                              wouldCall.newDependencyId))

\* C23: the id generateSequentialId returns is none of the existing ids,
\* whatever the list holds ("0", repeated ids, ids that are not numbers).
C23_SequentialIdIsFresh ==
    seqIdResult.done => \A i \in 1..Len(seqIdInput) : seqIdInput[i] # seqIdResult.id

\* C24: no successful creation is lost. When two createTask calls have
\* resolved and every operation in flight (the initial load and a refresh
\* included) has completed, the list holds both created tasks.
C24_NoCreationLost ==
    (NoneInFlight(io) /\ Cardinality(created) >= 2) => created \subseteq IdsOf(tasks)

\* a load of the hook (mount or refresh) is in flight
LoadInFlight == \E s \in Slots : io[s].op = "load" /\ io[s].st # "idle"

\* C25: every load, on mount or through refresh, is eventually followed by
\* isLoading = false, whether the storage answers with the tasks or with an
\* error; the completion of a failed load sets the error to "Failed to load
\* tasks", that of a successful one makes the loaded list the list.
C25_LoadEndsLoading ==
    /\ LoadInFlight ~> ~isLoading
    /\ [][\A s \in Slots :
             (Settle(s) /\ io[s].op = "load")
                 => /\ ~isLoading'
                    /\ io[s].res.ok => tasks' = io[s].res.value
                    /\ ~io[s].res.ok => error' = <<"Failed to load tasks">>]_vars

\* a refresh has failed, nothing is in flight and the flag is down
C25_Witness ==
    /\ lastOutcome = [op |-> "refresh", result |-> "resolved", ioFailed |-> TRUE]
    /\ ~isLoading
    /\ error = <<"Failed to load tasks">>
    /\ NoneInFlight(io)

\* the statuses reached from the set `from` by one to n allowed transitions
RECURSIVE TransitionsWithin(_, _)
TransitionsWithin(from, n) ==
    IF n = 0
    THEN {}
    ELSE LET next == {to \in Range(WorkflowStatuses) :
                         \E a \in from : isValidTransition(a, to)}
         IN next \cup TransitionsWithin(next, n - 1)

\* C27: no status of the transition table is terminal: from the status a
\* task is in, each of the other five is reached by a chain of allowed
\* transitions (done is reopened, cancelled is reactivated).
C27_NoTerminalStatus ==
    \A to \in Range(WorkflowStatuses) :
        to # workflow.status
            => to \in TransitionsWithin({workflow.status}, Len(WorkflowStatuses))

\* a task that was done has been reopened and has ended up cancelled
C27_Witness ==
    workflow.start = "done" /\ workflow.status = "cancelled"

\* C26: every status change made through updateTaskStatus, and every status
\* the Change Status actions offer for a task (getAvailableStatuses), is a
\* transition the table allows: isValidTransition(current, new).
C26_OnlyAllowedTransitions ==
    /\ [](\A i \in 1..Len(utData.tasks) :
             \A k \in 1..Len(getAvailableStatuses(utData.tasks[i].status)) :
                 isValidTransition(utData.tasks[i].status,
                                   getAvailableStatuses(utData.tasks[i].status)[k]))
    /\ [][(utCall.op = "updateTask" /\ utCall.pc = "writing")
             => \A i \in 1..Len(utDisk) :
                   utDisk'[i].status # utDisk[i].status
                       => isValidTransition(utDisk[i].status, utDisk'[i].status)]_vars

\* the effect is in the log of the operation; before(a, b): a is, and b is
\* not or comes later
Happened(effect) == IndexOf(utLog, effect) # 0

Precedes(a, b) == Happened(a) /\ (Happened(b) => IndexOf(utLog, a) < IndexOf(utLog, b))

TimesHappened(effect) == Cardinality({i \in 1..Len(utLog) : utLog[i] = effect})

\* C30: the effects of an updateTask, deleteTask or createTask of useTasks
\* come in one order: the write has completed when revalidate is called, and
\* revalidate has completed when the success toast is shown. After a failed
\* write there is no revalidate and no success toast for that call,
\* handleError is invoked once and the error is thrown again. Without a
\* projectRoot no write is attempted.
C30_OrderOfEffects ==
    /\ Happened("revalidate") => Precedes("written", "revalidate")
    /\ Happened("successToast")
           => Precedes("revalidate", "revalidated") /\ Precedes("revalidated", "successToast")
    /\ Happened("writeFailed")
           => /\ ~Happened("revalidate") /\ ~Happened("successToast")
              /\ utCall.pc = "done"
                    => /\ TimesHappened("handleError") = 1
                       /\ utLog[Len(utLog)] = "thrown"
                       /\ utCall.outcome = "rejected"
    /\ utRoot = "" => ~Happened("writeStart") /\ ~Happened("written")

\* a createTask, the second operation of a run, has started its write, the
\* write has failed and the operation has ended
C30_Witness ==
    /\ utCalls = 2 /\ utCall.pc = "done" /\ utCall.op = "createTask"
    /\ utRoot # ""
    /\ utLog = <<"writeStart", "writeFailed", "handleError", "thrown">>

\* C28: once setStorage(s) has been called, loadTasks(), saveTasks(tasks)
\* and clearTasks() of the module, which are the functions useSimpleTasks
\* loads and saves with, go to s, the instance getStorage() returns: a load
\* answers what s held, a save and a clear change s and no other instance.
C28_ModuleFunctionsUseCustomStorage ==
    (moduleCall.fn # "none" /\ moduleCall.custom # NoCustomStorage)
        => /\ moduleCall.reached = moduleCall.custom
           /\ moduleCall.fn = "loadTasks" => moduleCall.result = moduleCall.held

TimesIn(list, x) == Cardinality({i \in 1..Len(list) : list[i] = x})

IsPermutation(a, b) ==
    /\ Len(a) = Len(b)
    /\ \A x \in Range(a) \cup Range(b) : TimesIn(a, x) = TimesIn(b, x)

\* the place of a task in the ascending order of a field: smaller comes first
AscendingKey(field, t) ==
    CASE field = "title" -> IndexOf(LocaleOrder, t.title)
      [] field = "status" -> IndexOf(<<"todo", "in-progress", "done">>, t.status)
      [] field = "priority" -> IndexOf(<<"high", "medium", "low">>, t.priority)
      [] field = "createdAt" -> t.createdAt
      [] field = "updatedAt" -> t.updatedAt

\* C29: sortTasks returns a permutation of its input and leaves the caller's
\* list as it was. For every field the comparator of order "desc" is the
\* negation of the one of "asc", so the result is in the field's ascending
\* order for "asc" and in the reverse order for "desc"; for "priority" that
\* is high, medium, low for "asc" and low, medium, high for "desc".
C29_SortTasksPermutesAndOrders ==
    sortTasksCall.done =>
        LET in == sortTasksCall.tasks
            out == sortTasksResult
            sort == sortTasksCall.sort
            key(t) == AscendingKey(sort.field, t)
        IN /\ IsPermutation(in, out)
           /\ sortTasksArray = in
           /\ \A a, b \in SortTaskSamples :
                 sortComparator([field |-> sort.field, order |-> "desc"], a, b)
                     = 0 - sortComparator([field |-> sort.field, order |-> "asc"], a, b)
           /\ \A i, j \in 1..Len(out) :
                 i < j => IF sort.order = "asc" THEN key(out[i]) <= key(out[j])
                          ELSE key(out[i]) >= key(out[j])

\* a list of a low, a high and a medium task has been sorted by priority in
\* order "desc"
C29_Witness ==
    /\ sortTasksCall.done
    /\ sortTasksCall.sort = [field |-> "priority", order |-> "desc"]
    /\ [i \in 1..Len(sortTasksCall.tasks) |-> sortTasksCall.tasks[i].id] = <<1, 2, 3>>
    /\ [i \in 1..Len(sortTasksResult) |-> sortTasksResult[i].priority] = <<"low", "medium", "high">>

====
